---- MODULE Spec2Model ----
(***************************************************************************)
(* Ideas Hub: scoring engine (app/backend/ideas/scoring.py), similarity    *)
(* search (app/backend/ideas/service.py) and batch clustering              *)
(* (app/backend/ideas/clustering.py).                                      *)
(*                                                                         *)
(* Python numbers are modelled exactly: a finite number is a reduced       *)
(* fraction <<n, d>> with d > 0; float('inf'), float('-inf') and           *)
(* float('nan') are <<1, 0>>, <<-1, 0>> and <<0, 0>>; None is <<>>.        *)
(* A raised ZeroDivisionError is the value DivError.                       *)
(***************************************************************************)
EXTENDS Integers, Sequences, FiniteSets, TLC

VARIABLES
    norm_call,      \* last normalize_value invocation: <<>> or <<[value, min_val, max_val, invert, ret]>>
    class_call,     \* last determine_recommendation_class invocation: <<>> or <<[impact_score, feasibility_score, ret]>>
    score_call,     \* last calculate_scores invocation: <<>> or <<[kpi_estimates, impact_score, feasibility_score, recommendation_class]>>
    config,         \* IdeaScorer.config: [impact_weights, feasibility_weights], each a dict key -> weight
    cosine_call,    \* last _cosine_similarity invocation: <<>> or <<[vec1, vec2, ret]>>
    similar_call,   \* last find_similar_ideas invocation: <<>> or <<[text, threshold, limit, exclude_id, embedding, ret]>>
    search_client,  \* IdeasService.search_client: <<>> (None) or <<[docs, fail_at]>>
    ideas_container,\* IdeasService.ideas_container: <<>> (None) or <<[items, fails]>>
    optimal_call,   \* last _find_optimal_clusters invocation: <<>> or <<[n_samples, outcome, ret, tried]>>
    cluster_call,   \* last cluster_ideas invocation: <<>> or <<[n_samples, n_clusters, outcome, fit, array, ret]>>
    clusterer,      \* IdeaClusterer: <<>> or <<[min_clusters, max_clusters, min_ideas_per_cluster]>>
    callers,        \* concurrent calculate_scores calls: <<>> or caller -> [pc, impact_score, feasibility_score, ret]
    shared_estimate,\* the kpi_estimates dict the concurrent callers share: <<>> or <<dict>>
    validate_call,  \* last _validate_kpi_estimates invocation: <<>> or <<[raw_kpis, ret]>>
    stored_ideas    \* the ideas of the container by id: <<>> or a sequence of idea records

scoring_vars == <<norm_call, class_call, score_call, config>>
service_vars == <<cosine_call, similar_call, search_client, ideas_container>>
clustering_vars == <<optimal_call, cluster_call, clusterer>>
concurrent_vars == <<callers, shared_estimate>>
analysis_vars == <<validate_call, stored_ideas>>

vars == <<scoring_vars, service_vars, clustering_vars, concurrent_vars, analysis_vars>>

\* ------------------------------------------------------------------------
\* Bounds of the model
\* ------------------------------------------------------------------------

\* Concurrent callers of calculate_scores.
MaxCallers == 2

\* Ideas stored in the container.
MaxIdeas == 1

\* Sample points per normalization range: min + i*(max-min)/Steps for
\* i in -1 .. Steps+1 (one point below and one above the range).
Steps == 4

\* ------------------------------------------------------------------------
\* Numbers
\* ------------------------------------------------------------------------

None == <<>>
NaN == <<0, 0>>
PosInf == <<1, 0>>
NegInf == <<-1, 0>>
DivError == <<0, 0, 0>>

Abs(x) == IF x < 0 THEN -x ELSE x

RECURSIVE GCD(_, _)
GCD(a, b) == IF b = 0 THEN a ELSE GCD(b, a % b)

\* The fraction n/d (d # 0) in lowest terms with a positive denominator.
Rat(n, d) ==
    LET g == GCD(Abs(n), Abs(d))
        s == IF d < 0 THEN -1 ELSE 1
    IN  <<(s * n) \div g, (s * d) \div g>>

Num(n) == <<n, 1>>

IsFinite(x) == Len(x) = 2 /\ x[2] > 0

LCM(a, b) == (a \div GCD(a, b)) * b

Sign(x) == IF x[1] > 0 THEN 1 ELSE IF x[1] < 0 THEN -1 ELSE 0

\* Python's x + y (IEEE 754 for the non-finite floats).
Add(x, y) ==
    IF x = NaN \/ y = NaN THEN NaN
    ELSE IF ~IsFinite(x) THEN (IF ~IsFinite(y) /\ y # x THEN NaN ELSE x)
    ELSE IF ~IsFinite(y) THEN y
    ELSE LET l == LCM(x[2], y[2])
         IN  Rat(x[1] * (l \div x[2]) + y[1] * (l \div y[2]), l)

Neg(x) == <<-x[1], x[2]>>

\* Python's x - y.
Sub(x, y) == Add(x, Neg(y))

\* Python's x * y. Finite factors are cross-reduced before multiplying, so
\* that intermediate products stay small.
Mul(x, y) ==
    IF x = NaN \/ y = NaN THEN NaN
    ELSE IF ~IsFinite(x) \/ ~IsFinite(y)
         THEN (IF Sign(x) * Sign(y) = 0 THEN NaN ELSE <<Sign(x) * Sign(y), 0>>)
    ELSE LET a == Rat(x[1], y[2])
             b == Rat(y[1], x[2])
         IN  <<a[1] * b[1], a[2] * b[2]>>

\* Python's x / y: raises ZeroDivisionError when y == 0.
Div(x, y) ==
    IF y = Num(0) THEN DivError
    ELSE IF x = NaN \/ y = NaN THEN NaN
    ELSE IF ~IsFinite(y) THEN (IF ~IsFinite(x) THEN NaN ELSE Num(0))
    ELSE IF ~IsFinite(x) THEN <<Sign(x) * Sign(y), 0>>
    ELSE Mul(x, Rat(y[2], y[1]))

\* Python's x < y; every comparison with nan is False.
Lt(x, y) ==
    IF x = NaN \/ y = NaN THEN FALSE
    ELSE IF x = PosInf \/ y = NegInf THEN FALSE
    ELSE IF x = NegInf \/ y = PosInf THEN TRUE
    ELSE x[1] * y[2] < y[1] * x[2]

Gt(x, y) == Lt(y, x)

\* Python's x == y on numbers.
Eq(x, y) == x # NaN /\ y # NaN /\ x = y

Le(x, y) == Lt(x, y) \/ Eq(x, y)

Ge(x, y) == Le(y, x)

\* Python's min(a, b): b if b < a else a.
PyMin(a, b) == IF Lt(b, a) THEN b ELSE a

\* Python's max(a, b): b if b > a else a.
PyMax(a, b) == IF Gt(b, a) THEN b ELSE a

\* Python's round(x, 2): ties to even; nan and the infinities are returned as they are.
Round2(x) ==
    IF ~IsFinite(x) THEN x ELSE
    LET n == x[1] * 100
        d == x[2]
        q == n \div d
        r == n - q * d
        up == (2 * r > d) \/ (2 * r = d /\ q % 2 = 1)
    IN  Rat(IF up THEN q + 1 ELSE q, 100)

\* ------------------------------------------------------------------------
\* Module constants of scoring.py
\* ------------------------------------------------------------------------

ImpactKeys == {"time_savings", "cost_reduction", "quality_improvement",
               "employee_satisfaction", "scalability"}

FeasibilityKeys == {"implementation_effort", "risk_level", "complexity"}

DEFAULT_IMPACT_WEIGHTS ==
    [k \in ImpactKeys |->
        CASE k = "time_savings" -> Rat(20, 100)
          [] k = "cost_reduction" -> Rat(25, 100)
          [] k = "quality_improvement" -> Rat(20, 100)
          [] k = "employee_satisfaction" -> Rat(15, 100)
          [] k = "scalability" -> Rat(20, 100)]

DEFAULT_FEASIBILITY_WEIGHTS ==
    [k \in FeasibilityKeys |->
        CASE k = "implementation_effort" -> Rat(35, 100)
          [] k = "risk_level" -> Rat(35, 100)
          [] k = "complexity" -> Rat(30, 100)]

NumericKpis == {"timeSavingsHours", "costReductionEur", "qualityImprovementPercent",
                "employeeSatisfactionImpact", "scalabilityPotential",
                "implementationEffortDays"}

\* KPI_NORMALIZATION_RANGES[k] = <<min_val, max_val>>
KPI_NORMALIZATION_RANGES ==
    [k \in NumericKpis |->
        CASE k = "timeSavingsHours" -> <<Num(0), Num(500)>>
          [] k = "costReductionEur" -> <<Num(0), Num(500000)>>
          [] k = "qualityImprovementPercent" -> <<Num(0), Num(100)>>
          [] k = "employeeSatisfactionImpact" -> <<Num(-100), Num(100)>>
          [] k = "scalabilityPotential" -> <<Num(0), Num(100)>>
          [] k = "implementationEffortDays" -> <<Num(1), Num(365)>>]

RiskLevels == {"low", "medium", "high"}

RISK_LEVEL_SCORES ==
    [r \in RiskLevels |->
        CASE r = "low" -> Num(100)
          [] r = "medium" -> Num(50)
          [] r = "high" -> Num(10)]

\* RecommendationClass enum values (models.py)
QUICK_WIN == "quick_win"
HIGH_LEVERAGE == "high_leverage"
STRATEGIC == "strategic"
EVALUATE == "evaluate"
UNCLASSIFIED == "unclassified"

\* ------------------------------------------------------------------------
\* IdeaScorer.normalize_value
\* ------------------------------------------------------------------------

\* Variant: the value is clamped from above only (max(min_val, ...) is missing).
normalize_value_no_lower_clamp(value, min_val, max_val, invert) ==
    IF value = None THEN Num(0)
    ELSE
        LET clamped == PyMin(max_val, value)
            normalized ==
                IF Eq(max_val, min_val) THEN Num(50)
                ELSE LET q == Div(Sub(clamped, min_val), Sub(max_val, min_val))
                     IN  IF q = DivError THEN DivError ELSE Mul(q, Num(100))
        IN  IF normalized = DivError THEN DivError
            ELSE IF invert THEN Sub(Num(100), normalized)
            ELSE normalized

\* Variant: invert is ignored.
normalize_value_no_invert(value, min_val, max_val, invert) ==
    IF value = None THEN Num(0)
    ELSE
        LET clamped == PyMax(min_val, PyMin(max_val, value))
        IN  IF Eq(max_val, min_val) THEN Num(50)
            ELSE LET q == Div(Sub(clamped, min_val), Sub(max_val, min_val))
                 IN  IF q = DivError THEN DivError ELSE Mul(q, Num(100))

\* Variant: the max_val == min_val test is missing, so the division is always made.
normalize_value_no_midpoint(value, min_val, max_val, invert) ==
    IF value = None THEN Num(0)
    ELSE
        LET clamped == PyMax(min_val, PyMin(max_val, value))
            q == Div(Sub(clamped, min_val), Sub(max_val, min_val))
        IN  IF q = DivError THEN DivError
            ELSE IF invert THEN Sub(Num(100), Mul(q, Num(100)))
            ELSE Mul(q, Num(100))

normalize_value(value, min_val, max_val, invert) ==
    IF value = None THEN Num(0)
    ELSE
        LET clamped == PyMax(min_val, PyMin(max_val, value))
            normalized ==
                IF Eq(max_val, min_val) THEN Num(50)
                ELSE LET q == Div(Sub(clamped, min_val), Sub(max_val, min_val))
                     IN  IF q = DivError THEN DivError ELSE Mul(q, Num(100))
        IN  IF normalized = DivError THEN DivError
            ELSE IF invert THEN Sub(Num(100), normalized)
            ELSE normalized

\* ------------------------------------------------------------------------
\* IdeaScorer.calculate_impact_score / calculate_feasibility_score
\*
\* A dict is a function whose DOMAIN is the set of keys holding a value
\* other than None: d.get(k) is not None  <=>  k \in DOMAIN d.
\* ------------------------------------------------------------------------

\* dict.get(key, default)
DictGet(d, key, default) == IF key \in DOMAIN d THEN d[key] ELSE default

\* weighted_sum += score * weight; total_weight += weight
Accumulate(acc, score, weight) ==
    [weighted_sum |-> Add(acc.weighted_sum, Mul(score, weight)),
     total_weight |-> Add(acc.total_weight, weight)]

\* Variant: an absent KPI is treated as a zero score, its weight still counting.
ImpactContribution_absent_as_zero(acc, kpi_estimates, kpi, weight) ==
    IF kpi \in DOMAIN kpi_estimates
    THEN LET r == KPI_NORMALIZATION_RANGES[kpi]
         IN  Accumulate(acc, normalize_value(kpi_estimates[kpi], r[1], r[2], FALSE), weight)
    ELSE Accumulate(acc, Num(0), weight)

\* One "contribution" block of calculate_impact_score: taken when the KPI is present.
ImpactContribution(acc, kpi_estimates, kpi, weight) ==
    IF kpi \in DOMAIN kpi_estimates
    THEN LET r == KPI_NORMALIZATION_RANGES[kpi]
         IN  Accumulate(acc, normalize_value(kpi_estimates[kpi], r[1], r[2], FALSE), weight)
    ELSE acc

\* Variant: the weighted sum is returned without dividing by the total weight.
FinalScore_no_renormalize(acc) ==
    IF Gt(acc.total_weight, Num(0))
    THEN Round2(acc.weighted_sum)
    ELSE Round2(Num(0))

\* The "calculate final score" tail shared by both scores.
FinalScore(acc) ==
    IF Gt(acc.total_weight, Num(0))
    THEN Round2(Div(acc.weighted_sum, acc.total_weight))
    ELSE Round2(Num(0))

\* Variant: a key missing from the weight map gives the weight 0.
calculate_impact_score_missing_key_zero(kpi_estimates) ==
    IF DOMAIN kpi_estimates = {} THEN Num(0)
    ELSE
        LET weights == config.impact_weights
            a0 == [weighted_sum |-> Num(0), total_weight |-> Num(0)]
            a1 == ImpactContribution(a0, kpi_estimates, "timeSavingsHours",
                      DictGet(weights, "time_savings", Num(0)))
            a2 == ImpactContribution(a1, kpi_estimates, "costReductionEur",
                      DictGet(weights, "cost_reduction", Num(0)))
            a3 == ImpactContribution(a2, kpi_estimates, "qualityImprovementPercent",
                      DictGet(weights, "quality_improvement", Num(0)))
            a4 == ImpactContribution(a3, kpi_estimates, "employeeSatisfactionImpact",
                      DictGet(weights, "employee_satisfaction", Num(0)))
            a5 == ImpactContribution(a4, kpi_estimates, "scalabilityPotential",
                      DictGet(weights, "scalability", Num(0)))
        IN  FinalScore(a5)

calculate_impact_score(kpi_estimates) ==
    IF DOMAIN kpi_estimates = {} THEN Num(0)
    ELSE
        LET weights == config.impact_weights
            a0 == [weighted_sum |-> Num(0), total_weight |-> Num(0)]
            a1 == ImpactContribution(a0, kpi_estimates, "timeSavingsHours",
                      DictGet(weights, "time_savings", Rat(20, 100)))
            a2 == ImpactContribution(a1, kpi_estimates, "costReductionEur",
                      DictGet(weights, "cost_reduction", Rat(25, 100)))
            a3 == ImpactContribution(a2, kpi_estimates, "qualityImprovementPercent",
                      DictGet(weights, "quality_improvement", Rat(20, 100)))
            a4 == ImpactContribution(a3, kpi_estimates, "employeeSatisfactionImpact",
                      DictGet(weights, "employee_satisfaction", Rat(15, 100)))
            a5 == ImpactContribution(a4, kpi_estimates, "scalabilityPotential",
                      DictGet(weights, "scalability", Rat(20, 100)))
        IN  FinalScore(a5)

\* Variant: RISK_LEVEL_SCORES.get(risk_level, 0)
RiskScore_default_zero(risk_level) ==
    IF risk_level \in DOMAIN RISK_LEVEL_SCORES THEN RISK_LEVEL_SCORES[risk_level]
    ELSE Num(0)

\* RISK_LEVEL_SCORES.get(risk_level, 50)
RiskScore(risk_level) ==
    IF risk_level \in DOMAIN RISK_LEVEL_SCORES THEN RISK_LEVEL_SCORES[risk_level]
    ELSE Num(50)

\* normalize_value(effort, *KPI_NORMALIZATION_RANGES["implementationEffortDays"], invert=True)
EffortNorm(kpi_estimates) ==
    LET r == KPI_NORMALIZATION_RANGES["implementationEffortDays"]
    IN  normalize_value(DictGet(kpi_estimates, "implementationEffortDays", None),
                        r[1], r[2], TRUE)

\* The implementation-effort block: taken when effort is not None.
EffortContribution(acc, kpi_estimates, weight) ==
    IF "implementationEffortDays" \in DOMAIN kpi_estimates
    THEN Accumulate(acc, EffortNorm(kpi_estimates), weight)
    ELSE acc

\* RISK_LEVEL_SCORES.get(kpi_estimates.get("riskLevel"), 50); a None level is no key of the table.
EstimateRiskScore(kpi_estimates) ==
    IF "riskLevel" \in DOMAIN kpi_estimates THEN RiskScore(kpi_estimates["riskLevel"])
    ELSE Num(50)

\* The risk-level block: taken when risk_level is not None.
RiskContribution(acc, kpi_estimates, weight) ==
    IF "riskLevel" \in DOMAIN kpi_estimates
    THEN Accumulate(acc, EstimateRiskScore(kpi_estimates), weight)
    ELSE acc

\* Variant: if effort is not None or risk_level is not None
ComplexityApplies_either(kpi_estimates) ==
    \/ "implementationEffortDays" \in DOMAIN kpi_estimates
    \/ "riskLevel" \in DOMAIN kpi_estimates

\* if effort is not None and risk_level is not None
ComplexityApplies(kpi_estimates) ==
    /\ "implementationEffortDays" \in DOMAIN kpi_estimates
    /\ "riskLevel" \in DOMAIN kpi_estimates

\* complexity_score = (effort_norm + risk_score) / 2
ComplexityScore(kpi_estimates) ==
    Div(Add(EffortNorm(kpi_estimates), EstimateRiskScore(kpi_estimates)), Num(2))

\* The complexity block.
ComplexityContribution(acc, kpi_estimates, weight) ==
    IF ComplexityApplies(kpi_estimates)
    THEN Accumulate(acc, ComplexityScore(kpi_estimates), weight)
    ELSE acc

calculate_feasibility_score(kpi_estimates) ==
    IF DOMAIN kpi_estimates = {} THEN Num(0)
    ELSE
        LET weights == config.feasibility_weights
            a0 == [weighted_sum |-> Num(0), total_weight |-> Num(0)]
            a1 == EffortContribution(a0, kpi_estimates,
                      DictGet(weights, "implementation_effort", Rat(35, 100)))
            a2 == RiskContribution(a1, kpi_estimates,
                      DictGet(weights, "risk_level", Rat(35, 100)))
            a3 == ComplexityContribution(a2, kpi_estimates,
                      DictGet(weights, "complexity", Rat(30, 100)))
        IN  FinalScore(a3)

\* ------------------------------------------------------------------------
\* IdeaScorer.determine_recommendation_class / calculate_scores
\* ------------------------------------------------------------------------

\* Variant: the Strategic rule tests impact_score > 60 instead of >= 60.
determine_recommendation_class_strict_strategic(impact_score, feasibility_score) ==
    IF Ge(impact_score, Num(70)) /\ Ge(feasibility_score, Num(60)) THEN QUICK_WIN
    ELSE IF Ge(impact_score, Num(80)) /\ Lt(feasibility_score, Num(60)) THEN HIGH_LEVERAGE
    ELSE IF Gt(impact_score, Num(60)) /\ Ge(feasibility_score, Num(40)) THEN STRATEGIC
    ELSE EVALUATE

\* Variant: the High Leverage rule is tested first, with feasibility_score <= 60.
determine_recommendation_class_high_leverage_first(impact_score, feasibility_score) ==
    IF Ge(impact_score, Num(80)) /\ Le(feasibility_score, Num(60)) THEN HIGH_LEVERAGE
    ELSE IF Ge(impact_score, Num(70)) /\ Ge(feasibility_score, Num(60)) THEN QUICK_WIN
    ELSE IF Ge(impact_score, Num(60)) /\ Ge(feasibility_score, Num(40)) THEN STRATEGIC
    ELSE EVALUATE

\* Variant: the Quick Win rule uses the High Leverage impact threshold 80.
determine_recommendation_class_quick_win_80(impact_score, feasibility_score) ==
    IF Ge(impact_score, Num(80)) /\ Ge(feasibility_score, Num(60)) THEN QUICK_WIN
    ELSE IF Ge(impact_score, Num(80)) /\ Lt(feasibility_score, Num(60)) THEN HIGH_LEVERAGE
    ELSE IF Ge(impact_score, Num(60)) /\ Ge(feasibility_score, Num(40)) THEN STRATEGIC
    ELSE EVALUATE

determine_recommendation_class(impact_score, feasibility_score) ==
    IF Ge(impact_score, Num(70)) /\ Ge(feasibility_score, Num(60)) THEN QUICK_WIN
    ELSE IF Ge(impact_score, Num(80)) /\ Lt(feasibility_score, Num(60)) THEN HIGH_LEVERAGE
    ELSE IF Ge(impact_score, Num(60)) /\ Ge(feasibility_score, Num(40)) THEN STRATEGIC
    ELSE EVALUATE

\* The tuple calculate_scores returns for the two computed scores.
ScoreResult(impact_score, feasibility_score) ==
    [impact_score |-> impact_score,
     feasibility_score |-> feasibility_score,
     recommendation_class |->
         determine_recommendation_class(impact_score, feasibility_score)]

calculate_scores(kpi_estimates) ==
    CHOOSE result \in
        {ScoreResult(impact_score, feasibility_score) :
            impact_score \in {calculate_impact_score(kpi_estimates)},
            feasibility_score \in {calculate_feasibility_score(kpi_estimates)}} : TRUE

\* ------------------------------------------------------------------------
\* ScoringConfig.default / ScoringConfig.from_dict / IdeaScorer.__init__
\* ------------------------------------------------------------------------

ScoringConfig_default ==
    [impact_weights |-> DEFAULT_IMPACT_WEIGHTS,
     feasibility_weights |-> DEFAULT_FEASIBILITY_WEIGHTS]

ScoringConfig_from_dict(data) ==
    [impact_weights |-> DictGet(data, "impactWeights", DEFAULT_IMPACT_WEIGHTS),
     feasibility_weights |-> DictGet(data, "feasibilityWeights", DEFAULT_FEASIBILITY_WEIGHTS)]

\* Weight dictionaries a deployment may pass to from_dict.
ZeroImpactWeights == [k \in ImpactKeys |-> Num(0)]

ZeroFeasibilityWeights == [k \in FeasibilityKeys |-> Num(0)]

CustomImpactWeights ==
    [k \in ImpactKeys |->
        CASE k = "time_savings" -> Num(1)
          [] k = "cost_reduction" -> Num(0)
          [] k = "quality_improvement" -> Num(3)
          [] k = "employee_satisfaction" -> Num(2)
          [] k = "scalability" -> Rat(1, 2)]

CustomFeasibilityWeights ==
    [k \in FeasibilityKeys |->
        CASE k = "implementation_effort" -> Num(2)
          [] k = "risk_level" -> Num(1)
          [] k = "complexity" -> Num(0)]

\* Maps that leave keys out and hold a key the scorer does not know.
PartialImpactWeights == [k \in {"cost_reduction", "novelty"} |-> Rat(1, 2)]

PartialFeasibilityWeights == [k \in {"risk_level", "urgency"} |-> Num(1)]

NegativeImpactWeights ==
    [k \in ImpactKeys |-> IF k = "time_savings" THEN Rat(-1, 2) ELSE Rat(1, 4)]

NegativeFeasibilityWeights ==
    [k \in FeasibilityKeys |-> IF k = "risk_level" THEN Rat(-1, 2) ELSE Rat(1, 4)]

ConfigData ==
    { [k \in {"impactWeights", "feasibilityWeights"} |->
          IF k = "impactWeights" THEN ZeroImpactWeights ELSE ZeroFeasibilityWeights],
      [k \in {"impactWeights", "feasibilityWeights"} |->
          IF k = "impactWeights" THEN CustomImpactWeights ELSE CustomFeasibilityWeights],
      [k \in {"impactWeights", "feasibilityWeights"} |->
          IF k = "impactWeights" THEN PartialImpactWeights ELSE PartialFeasibilityWeights],
      [k \in {"impactWeights", "feasibilityWeights"} |->
          IF k = "impactWeights" THEN NegativeImpactWeights ELSE NegativeFeasibilityWeights],
      [k \in {"feasibilityWeights"} |-> CustomFeasibilityWeights] }

\* IdeaScorer(config): config or ScoringConfig.default()
Configs == {ScoringConfig_default} \cup {ScoringConfig_from_dict(d) : d \in ConfigData}

\* ------------------------------------------------------------------------
\* Inputs
\* ------------------------------------------------------------------------

\* (min_val, max_val) pairs normalize_value is called with: the six KPI
\* ranges, two degenerate ranges and one reversed range.
NormRanges ==
    {KPI_NORMALIZATION_RANGES[k] : k \in NumericKpis}
        \cup {<<Num(50), Num(50)>>, <<Num(0), Num(0)>>, <<Num(100), Num(0)>>}

GridPoint(r, i) == Add(r[1], Div(Mul(Num(i), Sub(r[2], r[1])), Num(Steps)))

NormValues(r) ==
    {GridPoint(r, i) : i \in -1 .. Steps + 1}
        \cup {Num(0), Sub(r[1], Num(1)), Add(r[2], Num(1)), NaN, PosInf, NegInf, None}

\* Scores handed to determine_recommendation_class: the thresholds, their
\* neighbours one tenth away, values outside 0..100 and the non-finite floats.
ScoreSamples ==
    {Num(-5), Num(0), Rat(399, 10), Num(40), Rat(599, 10), Num(60), Rat(699, 10),
     Num(70), Rat(799, 10), Num(80), Num(82), Num(85), Num(100), Num(150),
     NaN, PosInf, NegInf}

\* Values an extracted estimate may hold per KPI (in range, out of range, non-finite).
KpiSamples ==
    [k \in NumericKpis |->
        CASE k = "timeSavingsHours" -> {Num(200), Num(600)}
          [] k = "costReductionEur" -> {Num(200000), Num(-5000)}
          [] k = "qualityImprovementPercent" -> {Num(35), NaN}
          [] k = "employeeSatisfactionImpact" -> {Num(-40), PosInf}
          [] k = "scalabilityPotential" -> {Num(80), NegInf}
          [] k = "implementationEffortDays" -> {Num(0), Num(1), Num(120), Num(400)}]

RiskSamples == {"low", "medium", "high", "critical"}

\* an optional value: <<>> (key absent or None) or <<v>>
Opt(S) == {<<>>} \cup {<<v>> : v \in S}

\* The kpi_estimates dict holding exactly the given optional values.
MakeEstimate(o) ==
    [k \in {key \in DOMAIN o : o[key] # <<>>} |-> o[k][1]]

Estimates ==
    {MakeEstimate(o) :
        o \in [timeSavingsHours : Opt(KpiSamples["timeSavingsHours"]),
               costReductionEur : Opt(KpiSamples["costReductionEur"]),
               qualityImprovementPercent : Opt(KpiSamples["qualityImprovementPercent"]),
               employeeSatisfactionImpact : Opt(KpiSamples["employeeSatisfactionImpact"]),
               scalabilityPotential : Opt(KpiSamples["scalabilityPotential"]),
               implementationEffortDays : Opt(KpiSamples["implementationEffortDays"]),
               riskLevel : Opt(RiskSamples)]}

\* ------------------------------------------------------------------------
\* Operations
\* ------------------------------------------------------------------------

NoCalls ==
    /\ norm_call = <<>> /\ class_call = <<>> /\ score_call = <<>>
    /\ cosine_call = <<>> /\ similar_call = <<>>
    /\ optimal_call = <<>> /\ cluster_call = <<>>

\* The scorer is used without a service and without a clusterer.
NoService == search_client = <<>> /\ ideas_container = <<>>

NoClusterer == clusterer = <<>>

\* No concurrent callers, no validation call and no stored ideas.
NoAnalysis ==
    /\ callers = <<>> /\ shared_estimate = <<>>
    /\ validate_call = <<>> /\ stored_ideas = <<>>

NormalizeValue(value, min_val, max_val, invert) ==
    /\ norm_call' = <<[value |-> value, min_val |-> min_val, max_val |-> max_val,
                       invert |-> invert,
                       ret |-> normalize_value(value, min_val, max_val, invert)]>>
    /\ UNCHANGED <<class_call, score_call, config, service_vars, clustering_vars,
                   concurrent_vars, analysis_vars>>

DetermineRecommendationClass(impact_score, feasibility_score) ==
    /\ class_call' = <<[impact_score |-> impact_score,
                        feasibility_score |-> feasibility_score,
                        ret |-> determine_recommendation_class(impact_score,
                                                              feasibility_score)]>>
    /\ UNCHANGED <<norm_call, score_call, config, service_vars, clustering_vars,
                   concurrent_vars, analysis_vars>>

\* One invocation per behaviour: the scorer keeps no state between calls.
CalculateScores ==
    /\ score_call = <<>>
    /\ \E kpi_estimates \in Estimates :
           score_call' = <<[kpi_estimates |-> kpi_estimates,
                            ret |-> calculate_scores(kpi_estimates)]>>
    /\ UNCHANGED <<norm_call, class_call, config, service_vars, clustering_vars,
                   concurrent_vars, analysis_vars>>

\* ------------------------------------------------------------------------
\* Specifications
\* ------------------------------------------------------------------------

NormalizeInit == NoCalls /\ NoService /\ NoClusterer /\ NoAnalysis /\ config = ScoringConfig_default

NormalizeNext ==
    \E r \in NormRanges : \E value \in NormValues(r) : \E invert \in BOOLEAN :
        NormalizeValue(value, r[1], r[2], invert)

SpecNormalize == NormalizeInit /\ [][NormalizeNext]_vars

ClassifyInit == NoCalls /\ NoService /\ NoClusterer /\ NoAnalysis /\ config = ScoringConfig_default

ClassifyNext ==
    \E impact_score \in ScoreSamples : \E feasibility_score \in ScoreSamples :
        DetermineRecommendationClass(impact_score, feasibility_score)

SpecClassify == ClassifyInit /\ [][ClassifyNext]_vars

ScoringInit == NoCalls /\ NoService /\ NoClusterer /\ NoAnalysis /\ config \in Configs

ScoringNext == CalculateScores

SpecScoring == ScoringInit /\ [][ScoringNext]_vars

\* ------------------------------------------------------------------------
\* Recommendation classifier (SpecClassify)
\* ------------------------------------------------------------------------

ClassCalled(impact_score, feasibility_score) ==
    /\ class_call # <<>>
    /\ class_call[1].impact_score = impact_score
    /\ class_call[1].feasibility_score = feasibility_score

InScoreRange(x) == IsFinite(x) /\ Le(Num(0), x) /\ Le(x, Num(100))

\* v clamped into [lo, hi] (lo <= hi, v not nan)
Clamp(v, lo, hi) == IF Lt(v, lo) THEN lo ELSE IF Gt(v, hi) THEN hi ELSE v

NormCalled(value, r, invert) ==
    /\ norm_call # <<>>
    /\ norm_call[1].value = value
    /\ norm_call[1].min_val = r[1]
    /\ norm_call[1].max_val = r[2]
    /\ norm_call[1].invert = invert

EffortRange == KPI_NORMALIZATION_RANGES["implementationEffortDays"]

\* C6: normalize_value never rejects an input: for every numeric value and
\* min < max the result lies in [0, 100] and equals the result for the value
\* clamped into [min, max], for both settings of invert (nan, which has no
\* clamped value, is scored like max). Effort 0 is scored exactly like 1
\* (100 inverted) and effort above 365 exactly like 365 (0 inverted).
C6_ClampedNeverRejected ==
    norm_call # <<>> =>
        LET c == norm_call[1]
        IN  /\ (c.value # None /\ Lt(c.min_val, c.max_val)) =>
                /\ InScoreRange(c.ret)
                /\ c.ret = normalize_value(
                               IF c.value = NaN THEN c.max_val
                               ELSE Clamp(c.value, c.min_val, c.max_val),
                               c.min_val, c.max_val, c.invert)
                /\ Lt(c.value, c.min_val) => c.ret = (IF c.invert THEN Num(100) ELSE Num(0))
                /\ Gt(c.value, c.max_val) => c.ret = (IF c.invert THEN Num(0) ELSE Num(100))
            /\ NormCalled(Num(0), EffortRange, TRUE) =>
                c.ret = normalize_value(Num(1), EffortRange[1], EffortRange[2], TRUE)
            /\ NormCalled(Num(366), EffortRange, TRUE) =>
                c.ret = normalize_value(Num(365), EffortRange[1], EffortRange[2], TRUE)

\* C6 witness: effort 0 days, below the 1..365 range, has been scored 100.
C6_Witness ==
    /\ NormCalled(Num(0), EffortRange, TRUE)
    /\ norm_call[1].ret = Num(100)

\* C7: for fixed min <= max, normalize_value is monotonically non-decreasing
\* in value with invert=False and non-increasing with invert=True: of two
\* successive calls on the same range and invert setting with
\* value <= value', the results are ordered accordingly.
C7_Monotone ==
    [][ (/\ norm_call # <<>>
         /\ norm_call' # <<>>
         /\ norm_call[1].value # None
         /\ norm_call'[1].value # None
         /\ norm_call'[1].min_val = norm_call[1].min_val
         /\ norm_call'[1].max_val = norm_call[1].max_val
         /\ norm_call'[1].invert = norm_call[1].invert
         /\ Le(norm_call[1].min_val, norm_call[1].max_val)
         /\ Le(norm_call[1].value, norm_call'[1].value))
        => IF norm_call[1].invert
           THEN Ge(norm_call[1].ret, norm_call'[1].ret)
           ELSE Le(norm_call[1].ret, norm_call'[1].ret) ]_vars

\* C7 witness: an inverted call strictly inside its range has returned a
\* score strictly between 0 and 100.
C7_Witness ==
    /\ norm_call # <<>>
    /\ norm_call[1].invert
    /\ norm_call[1].value # None
    /\ Lt(norm_call[1].min_val, norm_call[1].value)
    /\ Lt(norm_call[1].value, norm_call[1].max_val)
    /\ Lt(Num(0), norm_call[1].ret)
    /\ Lt(norm_call[1].ret, Num(100))

\* C8: when min == max, normalize_value returns the midpoint 50 for every
\* numeric value and both settings of invert; no ZeroDivisionError is raised.
C8_DegenerateRangeMidpoint ==
    norm_call # <<>> =>
        LET c == norm_call[1]
        IN  (c.value # None /\ Eq(c.min_val, c.max_val)) =>
                (c.ret # DivError /\ c.ret = Num(50))

\* C8 witness: an inverted call on the range (50, 50) with a value outside it.
C8_Witness ==
    /\ NormCalled(Num(0), <<Num(50), Num(50)>>, TRUE)
    /\ norm_call[1].ret = Num(50)

\* ------------------------------------------------------------------------
\* Weighted scorer (SpecScoring)
\* ------------------------------------------------------------------------

ImpactKpis == {"timeSavingsHours", "costReductionEur", "qualityImprovementPercent",
               "employeeSatisfactionImpact", "scalabilityPotential"}

\* the weight applied to an impact KPI under the current configuration
ImpactWeight(kpi) ==
    CASE kpi = "timeSavingsHours" -> DictGet(config.impact_weights, "time_savings", Rat(20, 100))
      [] kpi = "costReductionEur" -> DictGet(config.impact_weights, "cost_reduction", Rat(25, 100))
      [] kpi = "qualityImprovementPercent" ->
            DictGet(config.impact_weights, "quality_improvement", Rat(20, 100))
      [] kpi = "employeeSatisfactionImpact" ->
            DictGet(config.impact_weights, "employee_satisfaction", Rat(15, 100))
      [] kpi = "scalabilityPotential" -> DictGet(config.impact_weights, "scalability", Rat(20, 100))

FeasibilityWeight(key) ==
    CASE key = "implementation_effort" ->
            DictGet(config.feasibility_weights, "implementation_effort", Rat(35, 100))
      [] key = "risk_level" -> DictGet(config.feasibility_weights, "risk_level", Rat(35, 100))
      [] key = "complexity" -> DictGet(config.feasibility_weights, "complexity", Rat(30, 100))

\* the sum of f[x] over x in S
RECURSIVE SumOver(_, _)
SumOver(S, f) ==
    IF S = {} THEN Num(0)
    ELSE LET x == CHOOSE y \in S : TRUE
         IN  Add(f[x], SumOver(S \ {x}, f))

\* weighted_sum / total_weight rounded to 2 decimals, 0.0 unless total_weight > 0
WeightedAverage(weighted_sum, total_weight) ==
    IF Gt(total_weight, Num(0)) THEN Round2(Div(weighted_sum, total_weight)) ELSE Num(0)

NonNegativeWeights ==
    /\ \A k \in DOMAIN config.impact_weights : Ge(config.impact_weights[k], Num(0))
    /\ \A k \in DOMAIN config.feasibility_weights : Ge(config.feasibility_weights[k], Num(0))

\* C4: for every KPI estimate (any subset of the metrics present, values in
\* range, out of range or non-finite, riskLevel any value) and every
\* configuration with non-negative weights, the impact score and the
\* feasibility score both lie in [0, 100].
C4_ScoresInRange ==
    (score_call # <<>> /\ NonNegativeWeights) =>
        /\ InScoreRange(score_call[1].ret.impact_score)
        /\ InScoreRange(score_call[1].ret.feasibility_score)

\* C4 witness: custom (not normalized) weights and an estimate whose time
\* savings, cost reduction and effort are all outside their ranges.
C4_Witness ==
    /\ score_call # <<>>
    /\ config.impact_weights = CustomImpactWeights
    /\ {"timeSavingsHours", "costReductionEur", "implementationEffortDays", "riskLevel"}
           \subseteq DOMAIN score_call[1].kpi_estimates
    /\ score_call[1].kpi_estimates["timeSavingsHours"] = Num(600)
    /\ score_call[1].kpi_estimates["costReductionEur"] = Num(-5000)
    /\ score_call[1].kpi_estimates["implementationEffortDays"] = Num(400)
    /\ Gt(score_call[1].ret.impact_score, Num(0))

ExampleEstimate ==
    [k \in {"timeSavingsHours", "costReductionEur", "riskLevel"} |->
        CASE k = "timeSavingsHours" -> Num(200)
          [] k = "costReductionEur" -> Num(200000)
          [] k = "riskLevel" -> "low"]

\* C5: the impact score is the sum of normalized_i * weight_i over the impact
\* metrics present in the estimate, divided by the sum of weight_i over the
\* same metrics (rounded to 2 decimals); absent metrics enter neither sum;
\* the score is 0.0 when the total applied weight is not positive. With the
\* default weights {timeSavingsHours: 200, costReductionEur: 200000,
\* riskLevel: low} scores 40.0.
C5_PartialDataImpact ==
    score_call # <<>> =>
        LET est == score_call[1].kpi_estimates
            present == ImpactKpis \cap DOMAIN est
            normalized == [k \in present |->
                              normalize_value(est[k], KPI_NORMALIZATION_RANGES[k][1],
                                              KPI_NORMALIZATION_RANGES[k][2], FALSE)]
            weighted == [k \in present |-> Mul(normalized[k], ImpactWeight(k))]
            weight == [k \in present |-> ImpactWeight(k)]
        IN  /\ score_call[1].ret.impact_score =
                   WeightedAverage(SumOver(present, weighted), SumOver(present, weight))
            /\ (est = ExampleEstimate /\ config = ScoringConfig_default)
                   => score_call[1].ret.impact_score = Num(40)

\* C5 witness: the two-of-five example under the default weights scored 40.0.
C5_Witness ==
    /\ score_call # <<>>
    /\ config = ScoringConfig_default
    /\ score_call[1].kpi_estimates = ExampleEstimate
    /\ score_call[1].ret.impact_score = Num(40)

\* C9: a present riskLevel is scored low -> 100, medium -> 50, high -> 10 and
\* any other value 50, and the call returns a score (no error): observed on
\* estimates without effort under a positive risk weight, where the
\* feasibility score is the risk score.
C9_RiskLevelMapping ==
    (/\ score_call # <<>>
     /\ "riskLevel" \in DOMAIN score_call[1].kpi_estimates
     /\ "implementationEffortDays" \notin DOMAIN score_call[1].kpi_estimates
     /\ Gt(FeasibilityWeight("risk_level"), Num(0)))
    => LET level == score_call[1].kpi_estimates["riskLevel"]
       IN  /\ IsFinite(score_call[1].ret.feasibility_score)
           /\ score_call[1].ret.feasibility_score =
                  (CASE level = "low" -> Num(100)
                     [] level = "medium" -> Num(50)
                     [] level = "high" -> Num(10)
                     [] OTHER -> Num(50))

\* C9 witness: the unrecognized level "critical" alone has been scored 50.
C9_Witness ==
    /\ score_call # <<>>
    /\ DOMAIN score_call[1].kpi_estimates = {"riskLevel"}
    /\ score_call[1].kpi_estimates["riskLevel"] = "critical"
    /\ Gt(FeasibilityWeight("risk_level"), Num(0))
    /\ score_call[1].ret.feasibility_score = Num(50)

\* C10: the complexity term (the average of the inverted-normalized effort
\* and the risk score) and its weight enter the feasibility sums iff both
\* implementationEffortDays and riskLevel are present. With only riskLevel
\* present the score is the weighted average of the risk score alone (the
\* risk score itself under a positive risk weight), with only effort present
\* that of the inverted-normalized effort alone.
C10_ComplexityIffBoth ==
    score_call # <<>> =>
        LET est == score_call[1].kpi_estimates
            got == score_call[1].ret.feasibility_score
            hasEffort == "implementationEffortDays" \in DOMAIN est
            hasRisk == "riskLevel" \in DOMAIN est
            e == normalize_value(est["implementationEffortDays"],
                                 EffortRange[1], EffortRange[2], TRUE)
            r == RiskScore(est["riskLevel"])
            we == FeasibilityWeight("implementation_effort")
            wr == FeasibilityWeight("risk_level")
            wc == FeasibilityWeight("complexity")
        IN  /\ (hasEffort /\ hasRisk) =>
                got = WeightedAverage(
                          Add(Add(Mul(e, we), Mul(r, wr)),
                              Mul(Div(Add(e, r), Num(2)), wc)),
                          Add(Add(we, wr), wc))
            /\ (~hasEffort /\ hasRisk) =>
                /\ got = WeightedAverage(Mul(r, wr), wr)
                /\ Gt(wr, Num(0)) => got = r
            /\ (hasEffort /\ ~hasRisk) =>
                /\ got = WeightedAverage(Mul(e, we), we)
                /\ Gt(we, Num(0)) => got = Round2(e)
            /\ (~hasEffort /\ ~hasRisk) => got = Num(0)

\* C10 witness: under the default weights effort 120 and risk "high" are both
\* present and the score includes the complexity term:
\* (67.31 * 0.35 + 10 * 0.35 + 38.65 * 0.30) / 1.00 = 38.65.
C10_Witness ==
    /\ score_call # <<>>
    /\ config = ScoringConfig_default
    /\ {"implementationEffortDays", "riskLevel"} \subseteq DOMAIN score_call[1].kpi_estimates
    /\ score_call[1].kpi_estimates["implementationEffortDays"] = Num(120)
    /\ score_call[1].kpi_estimates["riskLevel"] = "high"
    /\ score_call[1].ret.feasibility_score = Rat(3865, 100)

\* ------------------------------------------------------------------------
\* Bounds of the similarity-search model
\* ------------------------------------------------------------------------

\* Longest vector handed to _cosine_similarity on its own.
MaxDim == 2

\* Longest query text, in characters.
MaxTextLen == 1

\* Largest limit argument of find_similar_ideas.
MaxLimit == 2

\* ------------------------------------------------------------------------
\* IdeasService._cosine_similarity
\* ------------------------------------------------------------------------

\* Resolution of a computed square root. x ** 0.5 is a float: the
\* representable number nearest to the real root, exact only when the root
\* is representable. Here the representable roots are the multiples of
\* 1/SqrtScale; every other operation of the formula is exact.
SqrtScale == 1000

\* Largest r in lo .. hi with r * r <= n.
RECURSIVE ISqrtSearch(_, _, _)
ISqrtSearch(n, lo, hi) ==
    IF lo = hi THEN lo
    ELSE LET mid == (lo + hi + 1) \div 2
         IN  IF mid * mid <= n THEN ISqrtSearch(n, mid, hi)
             ELSE ISqrtSearch(n, lo, mid - 1)

ISqrt(n) == ISqrtSearch(n, 0, IF n < 46340 THEN n ELSE 46340)

\* Python's x ** 0.5 for a finite x >= 0.
Sqrt(x) ==
    LET scaled == (x[1] * SqrtScale * SqrtScale) \div x[2]
        r == ISqrt(scaled)
    IN  Rat(IF scaled - r * r > r THEN r + 1 ELSE r, SqrtScale)

\* sum(a * b for a, b in zip(vec1, vec2)); zip stops at the shorter vector.
RECURSIVE SumProducts(_, _)
SumProducts(vec1, vec2) ==
    IF vec1 = <<>> \/ vec2 = <<>> THEN Num(0)
    ELSE Add(Mul(Head(vec1), Head(vec2)), SumProducts(Tail(vec1), Tail(vec2)))

Magnitude(vec) == Sqrt(SumProducts(vec, vec))

\* Variant: vectors of different length are compared over the common prefix.
_cosine_similarity_no_length_check(vec1, vec2) ==
    IF Magnitude(vec1) = Num(0) \/ Magnitude(vec2) = Num(0) THEN Num(0)
    ELSE Div(SumProducts(vec1, vec2), Mul(Magnitude(vec1), Magnitude(vec2)))

\* Variant: the dot product is divided by the first vector's magnitude only.
_cosine_similarity_one_magnitude(vec1, vec2) ==
    IF Len(vec1) # Len(vec2) THEN Num(0)
    ELSE IF Magnitude(vec1) = Num(0) \/ Magnitude(vec2) = Num(0) THEN Num(0)
    ELSE Div(SumProducts(vec1, vec2), Mul(Magnitude(vec1), Magnitude(vec1)))

_cosine_similarity(vec1, vec2) ==
    IF Len(vec1) # Len(vec2) THEN Num(0)
    ELSE IF Magnitude(vec1) = Num(0) \/ Magnitude(vec2) = Num(0) THEN Num(0)
    ELSE Div(SumProducts(vec1, vec2), Mul(Magnitude(vec1), Magnitude(vec2)))

\* Vector components and the vectors of at most MaxDim of them.
CosComponents == {Num(-3), Num(0), Rat(1, 2), Num(1), Num(4)}

CosVectors == UNION {[1..n -> CosComponents] : n \in 0..MaxDim}

\* One invocation per behaviour: the function keeps no state between calls.
CosineSimilarity(vec1, vec2) ==
    /\ cosine_call = <<>>
    /\ cosine_call' = <<[vec1 |-> vec1, vec2 |-> vec2,
                         ret |-> _cosine_similarity(vec1, vec2)]>>
    /\ UNCHANGED <<scoring_vars, similar_call, search_client, ideas_container,
                   clustering_vars, concurrent_vars, analysis_vars>>

CosineInit == NoCalls /\ NoService /\ NoClusterer /\ NoAnalysis /\ config = ScoringConfig_default

CosineNext ==
    \E vec1 \in CosVectors : \E vec2 \in CosVectors : CosineSimilarity(vec1, vec2)

SpecCosine == CosineInit /\ [][CosineNext]_vars

\* ------------------------------------------------------------------------
\* Cosine similarity (SpecCosine)
\* ------------------------------------------------------------------------

CosineCalled == cosine_call # <<>>

\* A vector of zero magnitude: no component differs from 0 (the empty
\* vector included).
ZeroVector(vec) == \A i \in 1..Len(vec) : vec[i] = Num(0)

\* C16: _cosine_similarity returns 0.0, and raises nothing, whenever the two
\* vectors differ in length or one of them has zero magnitude, two empty
\* vectors included.
C16_DegenerateIsZero ==
    CosineCalled =>
        LET c == cosine_call[1]
        IN  (Len(c.vec1) # Len(c.vec2) \/ ZeroVector(c.vec1) \/ ZeroVector(c.vec2))
                => c.ret = Num(0)

\* A query of two components against a stored vector of one component
\* that lines up with it.
C16_Witness ==
    /\ CosineCalled
    /\ cosine_call[1].vec1 = <<Num(4), Num(-3)>>
    /\ cosine_call[1].vec2 = <<Num(4)>>
    /\ cosine_call[1].ret = Num(0)

\* C17 as stated: cosine(a, b) == cosine(b, a) for all a and b, and
\* cosine(a, a) == 1.0 for every nonzero a.
C17_AsStated ==
    CosineCalled =>
        LET c == cosine_call[1]
        IN  /\ c.ret = _cosine_similarity(c.vec2, c.vec1)
            /\ (c.vec1 = c.vec2 /\ ~ZeroVector(c.vec1)) => c.ret = Num(1)

\* Distance between two finite numbers.
Distance(x, y) == IF Lt(x, y) THEN Sub(y, x) ELSE Sub(x, y)

\* C17: cosine(a, b) == cosine(b, a) for all a and b; for a nonzero a,
\* cosine(a, a) is 1.0 exactly when the computed magnitude squares back to
\* the sum of squares, and is otherwise off 1.0 by the rounding of the
\* square root only.
C17_SymmetricSelfNearOne ==
    CosineCalled =>
        LET c == cosine_call[1]
            squares == SumProducts(c.vec1, c.vec1)
            magnitude == Magnitude(c.vec1)
        IN  /\ c.ret = _cosine_similarity(c.vec2, c.vec1)
            /\ (c.vec1 = c.vec2 /\ ~ZeroVector(c.vec1)) =>
                   /\ (c.ret = Num(1)) <=> (Mul(magnitude, magnitude) = squares)
                   /\ Le(Distance(c.ret, Num(1)), Rat(3, SqrtScale))

\* [1, 1] against itself: the root of 2 is not representable.
C17_Witness ==
    /\ CosineCalled
    /\ cosine_call[1].vec1 = <<Num(1), Num(1)>>
    /\ cosine_call[1].vec2 = <<Num(1), Num(1)>>
    /\ cosine_call[1].ret # Num(1)

\* ------------------------------------------------------------------------
\* IdeasService.find_similar_ideas
\* ------------------------------------------------------------------------

\* A text is a sequence of characters; an Optional[str] id is <<>> (None)
\* or <<id>>.
Chars == {" ", "a"}

RECURSIVE lstrip(_)
lstrip(text) ==
    IF text # <<>> /\ Head(text) = " " THEN lstrip(Tail(text)) ELSE text

RECURSIVE rstrip(_)
rstrip(text) ==
    IF text # <<>> /\ text[Len(text)] = " "
    THEN rstrip(SubSeq(text, 1, Len(text) - 1))
    ELSE text

\* str.strip()
strip(text) == rstrip(lstrip(text))

\* Truth value of an Optional[str]: None and "" are false.
Truthy(opt) == opt # <<>> /\ opt[1] # ""

\* The outcome of a search method: a raised exception or a returned list.
\* built lists the matches the method constructed or tried to construct, in
\* order.
Raised(built) == [raised |-> TRUE, similar_ideas |-> <<>>, built |-> built]

Returned(similar_ideas) ==
    [raised |-> FALSE, similar_ideas |-> similar_ideas, built |-> similar_ideas]

\* models.SimilarIdea is a dataclass with these two fields and no defaults.
SimilarIdea_fields == {"idea", "similarity_score"}

\* The keyword arguments with which both search methods call SimilarIdea.
SimilarIdea_keywords == {"idea_id", "title", "summary", "similarity_score", "status"}

\* Variant: a SimilarIdea class that takes whatever keywords it is given.
SimilarIdea_accepts_any(keywords) == TRUE

\* The dataclass's __init__ raises TypeError for an unexpected keyword and
\* for a missing field.
SimilarIdea_accepts(keywords) == keywords = SimilarIdea_fields

\* What a search method passes to SimilarIdea, as far as the claims look.
SimilarIdea(idea_id, similarity_score) ==
    [idea_id |-> idea_id, similarity_score |-> similarity_score]

\* A document of the search index as the client returns it.
Doc(id, score) == ("id" :> id) @@ ("@search.score" :> score)

\* search_client.search(vector_queries, filter, top): the top documents
\* that pass the filter, in the index's ranking (descending score).
Search(client, filter_expr, top) ==
    LET passing == SelectSeq(client.docs,
                       LAMBDA doc : filter_expr = <<>> \/ doc["id"] # filter_expr[1])
    IN  SubSeq(passing, 1, IF top < Len(passing) THEN top ELSE Len(passing))

\* Variant: results below the threshold are kept.
RECURSIVE AiSearchLoop_no_threshold(_, _, _, _, _, _, _)
AiSearchLoop_no_threshold(client, results, i, similar_ideas, threshold, limit, exclude_id) ==
    IF client.fail_at = i THEN Raised(similar_ideas)
    ELSE IF i > Len(results) THEN Returned(similar_ideas)
    ELSE LET score == DictGet(results[i], "@search.score", Num(0))
             idea_id == results[i]["id"]
             appended == Append(similar_ideas, SimilarIdea(idea_id, score))
         IN  IF Truthy(exclude_id) /\ idea_id = exclude_id[1]
             THEN AiSearchLoop_no_threshold(client, results, i + 1,
                      similar_ideas, threshold, limit, exclude_id)
             ELSE IF ~SimilarIdea_accepts(SimilarIdea_keywords) THEN Raised(appended)
             ELSE IF Len(appended) >= limit THEN Returned(appended)
             ELSE AiSearchLoop_no_threshold(client, results, i + 1,
                      appended, threshold, limit, exclude_id)

\* async for result in results: ... The i-th result is fetched and tested, a
\* SimilarIdea is constructed for it and appended; the loop ends after an
\* append that fills the list.
RECURSIVE AiSearchLoop(_, _, _, _, _, _, _)
AiSearchLoop(client, results, i, similar_ideas, threshold, limit, exclude_id) ==
    IF client.fail_at = i THEN Raised(similar_ideas)
    ELSE IF i > Len(results) THEN Returned(similar_ideas)
    ELSE LET score == DictGet(results[i], "@search.score", Num(0))
             idea_id == results[i]["id"]
             appended == Append(similar_ideas, SimilarIdea(idea_id, score))
         IN  IF Lt(score, threshold) \/ (Truthy(exclude_id) /\ idea_id = exclude_id[1])
             THEN AiSearchLoop(client, results, i + 1, similar_ideas,
                               threshold, limit, exclude_id)
             ELSE IF ~SimilarIdea_accepts(SimilarIdea_keywords) THEN Raised(appended)
             ELSE IF Len(appended) >= limit THEN Returned(appended)
             ELSE AiSearchLoop(client, results, i + 1, appended,
                               threshold, limit, exclude_id)

\* IdeasService._search_similar_with_ai_search. client.fail_at = 0: the
\* search call raises; client.fail_at = i > 0: fetching the i-th result
\* raises. Every exception is logged and raised again.
_search_similar_with_ai_search(client, query_embedding, threshold, limit, exclude_id) ==
    IF client.fail_at = 0 THEN Raised(<<>>)
    ELSE AiSearchLoop(client,
                      Search(client, IF Truthy(exclude_id) THEN exclude_id ELSE <<>>,
                             limit + 1),
                      1, <<>>, threshold, limit, exclude_id)

\* The container's answer to
\* SELECT * FROM c WHERE IS_DEFINED(c.embedding) AND ARRAY_LENGTH(c.embedding) > 0
query_items(container) ==
    SelectSeq(container.items, LAMBDA item : item.embedding # <<>>)

\* for item in items: ... the scan ends with the matches in scan order, or
\* raises where a SimilarIdea cannot be constructed.
RECURSIVE CosmosLoop(_, _, _, _)
CosmosLoop(items, query_embedding, threshold, exclude_id) ==
    IF items = <<>> THEN Returned(<<>>)
    ELSE LET item == Head(items)
             score == _cosine_similarity(query_embedding, item.embedding)
             rest == CosmosLoop(Tail(items), query_embedding, threshold, exclude_id)
             match == SimilarIdea(item.id, score)
         IN  IF Truthy(exclude_id) /\ item.id = exclude_id[1] THEN rest
             ELSE IF item.embedding = <<>> THEN rest
             ELSE IF Lt(score, threshold) THEN rest
             ELSE IF ~SimilarIdea_accepts(SimilarIdea_keywords) THEN Raised(<<match>>)
             ELSE IF rest.raised THEN Raised(<<match>> \o rest.built)
             ELSE Returned(<<match>> \o rest.similar_ideas)

\* list.sort(key=similarity_score, reverse=True): stable, equal scores keep
\* their order.
RECURSIVE InsertDescending(_, _)
InsertDescending(sorted, idea) ==
    IF sorted = <<>> THEN <<idea>>
    ELSE IF Lt(Head(sorted).similarity_score, idea.similarity_score)
         THEN <<idea>> \o sorted
         ELSE <<Head(sorted)>> \o InsertDescending(Tail(sorted), idea)

RECURSIVE SortDescending(_)
SortDescending(similar_ideas) ==
    IF similar_ideas = <<>> THEN <<>>
    ELSE InsertDescending(
             SortDescending(SubSeq(similar_ideas, 1, Len(similar_ideas) - 1)),
             similar_ideas[Len(similar_ideas)])

\* similar_ideas[:limit] for limit >= 0
Slice(similar_ideas, limit) ==
    SubSeq(similar_ideas, 1, IF limit < Len(similar_ideas) THEN limit
                             ELSE Len(similar_ideas))

\* Variant: an exception of the scan is answered with the matches built
\* before it.
_search_similar_with_cosmos_keeps_partial(container, query_embedding, threshold, limit, exclude_id) ==
    IF container = <<>> THEN [similar_ideas |-> <<>>, built |-> <<>>]
    ELSE IF container[1].fails THEN [similar_ideas |-> <<>>, built |-> <<>>]
    ELSE LET scan == CosmosLoop(query_items(container[1]), query_embedding,
                                threshold, exclude_id)
         IN  [similar_ideas |-> Slice(SortDescending(scan.built), limit),
              built |-> scan.built]

\* IdeasService._search_similar_with_cosmos: the list it returns and the
\* matches it built. Every exception is logged and answered with [].
_search_similar_with_cosmos(container, query_embedding, threshold, limit, exclude_id) ==
    IF container = <<>> THEN [similar_ideas |-> <<>>, built |-> <<>>]
    ELSE IF container[1].fails THEN [similar_ideas |-> <<>>, built |-> <<>>]
    ELSE LET scan == CosmosLoop(query_items(container[1]), query_embedding,
                                threshold, exclude_id)
         IN  [similar_ideas |-> IF scan.raised THEN <<>>
                                ELSE Slice(SortDescending(scan.similar_ideas), limit),
              built |-> scan.built]

\* Variant: a failing indexed search ends the call with no result.
SearchBackends_no_fallback(query_embedding, threshold, limit, exclude_id) ==
    LET indexed == _search_similar_with_ai_search(search_client[1], query_embedding,
                                                  threshold, limit, exclude_id)
        fallback == _search_similar_with_cosmos(ideas_container, query_embedding,
                                                threshold, limit, exclude_id)
    IN  IF search_client # <<>>
        THEN [similar_ideas |-> indexed.similar_ideas, trace |-> <<"ai_search">>,
              built |-> indexed.built]
        ELSE [similar_ideas |-> fallback.similar_ideas, trace |-> <<"cosmos">>,
              built |-> fallback.built]

\* Variant: the fallback also runs when the indexed search found nothing.
SearchBackends_fallback_on_empty(query_embedding, threshold, limit, exclude_id) ==
    LET indexed == _search_similar_with_ai_search(search_client[1], query_embedding,
                                                  threshold, limit, exclude_id)
        fallback == _search_similar_with_cosmos(ideas_container, query_embedding,
                                                threshold, limit, exclude_id)
    IN  IF search_client # <<>>
        THEN IF ~indexed.raised /\ indexed.similar_ideas # <<>>
             THEN [similar_ideas |-> indexed.similar_ideas, trace |-> <<"ai_search">>,
                   built |-> indexed.built]
             ELSE [similar_ideas |-> fallback.similar_ideas,
                   trace |-> <<"ai_search", "cosmos">>,
                   built |-> indexed.built \o fallback.built]
        ELSE [similar_ideas |-> fallback.similar_ideas, trace |-> <<"cosmos">>,
              built |-> fallback.built]

\* The search part of find_similar_ideas (service.py lines 1081-1107): what
\* is returned, which backends were called and which matches they built.
SearchBackends(query_embedding, threshold, limit, exclude_id) ==
    LET indexed == _search_similar_with_ai_search(search_client[1], query_embedding,
                                                  threshold, limit, exclude_id)
        fallback == _search_similar_with_cosmos(ideas_container, query_embedding,
                                                threshold, limit, exclude_id)
    IN  IF search_client # <<>>
        THEN IF ~indexed.raised
             THEN [similar_ideas |-> indexed.similar_ideas, trace |-> <<"ai_search">>,
                   built |-> indexed.built]
             ELSE [similar_ideas |-> fallback.similar_ideas,
                   trace |-> <<"ai_search", "cosmos">>,
                   built |-> indexed.built \o fallback.built]
        ELSE [similar_ideas |-> fallback.similar_ideas, trace |-> <<"cosmos">>,
              built |-> fallback.built]

\* Variant: a blank text is embedded and searched like any other.
find_similar_ideas_no_text_check(text, threshold, limit, exclude_id, embedding) ==
    IF embedding = <<>>
    THEN [similar_ideas |-> <<>>, trace |-> <<"generate_embedding">>, built |-> <<>>]
    ELSE LET found == SearchBackends(embedding, threshold, limit, exclude_id)
         IN  [similar_ideas |-> found.similar_ideas,
              trace |-> <<"generate_embedding">> \o found.trace,
              built |-> found.built]

\* IdeasService.find_similar_ideas; embedding is what generate_embedding
\* returns for the text ([] when it fails). trace lists the collaborators
\* called, in order; built the matches the backends built.
find_similar_ideas(text, threshold, limit, exclude_id, embedding) ==
    IF text = <<>> \/ strip(text) = <<>>
    THEN [similar_ideas |-> <<>>, trace |-> <<>>, built |-> <<>>]
    ELSE IF embedding = <<>>
    THEN [similar_ideas |-> <<>>, trace |-> <<"generate_embedding">>, built |-> <<>>]
    ELSE LET found == SearchBackends(embedding, threshold, limit, exclude_id)
         IN  [similar_ideas |-> found.similar_ideas,
              trace |-> <<"generate_embedding">> \o found.trace,
              built |-> found.built]

\* Arguments of find_similar_ideas and answers of its collaborators.
Texts == UNION {[1..n -> Chars] : n \in 0..MaxTextLen}

Thresholds == {Num(0), Rat(7, 10), Rat(97, 100)}

Limits == 0..MaxLimit

ExcludeIds == {<<>>, <<"">>, <<"i1">>}

QueryEmbeddings == {<<>>, <<Num(3), Num(4)>>, <<Num(1), Num(1)>>}

\* Stored ideas i1, i2, i3, each with no embedding or one of three.
IdeaIds == <<"i1", "i2", "i3">>

StoredEmbeddings == {<<>>, <<Num(3), Num(4)>>, <<Num(4), Num(3)>>,
                     <<Num(1), Num(2), Num(2)>>}

Items(embeddings) ==
    [i \in 1..Len(IdeaIds) |-> [id |-> IdeaIds[i], embedding |-> embeddings[i]]]

DefaultItems == Items(<<<<Num(3), Num(4)>>, <<Num(4), Num(3)>>, <<>> >>)

\* ideas_container: not configured, failing, or holding the stored ideas.
Containers ==
    {<<>>, <<[items |-> DefaultItems, fails |-> TRUE]>>}
    \cup {<<[items |-> Items(e), fails |-> FALSE]>> :
              e \in [1..Len(IdeaIds) -> StoredEmbeddings]}

\* Scores of the index for the query, and its rankings of the indexed
\* ideas: the index returns documents by descending score.
IndexScores == {Rat(19, 20), Rat(7, 10), Rat(1, 2)}

Rankings ==
    {s \in UNION {[1..n -> IndexScores] : n \in 0..Len(IdeaIds)} :
        \A i \in 1..(Len(s) - 1) : ~Lt(s[i], s[i + 1])}

Docs(scores) == [i \in 1..Len(scores) |-> Doc(IdeaIds[i], scores[i])]

\* fail_at of a client that raises nothing.
Never == -1

\* search_client: answering (one document without a score included) or
\* raising, on the search call or on fetching a result.
AnsweringClients ==
    {[docs |-> Docs(s), fail_at |-> Never] : s \in Rankings}
    \cup {[docs |-> <<Doc("i1", Rat(19, 20)), [id |-> "i2"]>>, fail_at |-> Never]}

RaisingClients ==
    {[docs |-> Docs(<<Rat(19, 20), Rat(19, 20), Rat(7, 10)>>), fail_at |-> k] :
        k \in 0..2}

\* One invocation per behaviour: the service keeps no state between calls.
FindSimilarIdeas ==
    /\ similar_call = <<>>
    /\ \E text \in Texts, threshold \in Thresholds, limit \in Limits,
          exclude_id \in ExcludeIds :
          \E embedding \in IF strip(text) = <<>> THEN {<<>>} ELSE QueryEmbeddings :
              similar_call' = <<[text |-> text, threshold |-> threshold,
                                 limit |-> limit, exclude_id |-> exclude_id,
                                 embedding |-> embedding,
                                 ret |-> find_similar_ideas(text, threshold, limit,
                                                            exclude_id, embedding)]>>
    /\ UNCHANGED <<scoring_vars, cosine_call, search_client, ideas_container,
                   clustering_vars, concurrent_vars, analysis_vars>>

\* The stored ideas vary under the clients that are not configured or
\* raise on their own; under the others the container holds the default
\* ideas.
SimilarInit ==
    /\ NoCalls /\ NoClusterer /\ NoAnalysis /\ config = ScoringConfig_default
    /\ \/ /\ search_client \in {<<client>> : client \in AnsweringClients}
          /\ ideas_container = <<[items |-> DefaultItems, fails |-> FALSE]>>
       \/ /\ search_client \in {<<>>} \cup {<<client>> : client \in RaisingClients}
          /\ ideas_container \in Containers

SimilarNext == FindSimilarIdeas

SpecSimilar == SimilarInit /\ [][SimilarNext]_vars

\* ------------------------------------------------------------------------
\* Similarity search (SpecSimilar)
\* ------------------------------------------------------------------------

SimilarCalled == similar_call # <<>>

\* The call got past the text and embedding checks and searched.
Searched ==
    /\ SimilarCalled
    /\ strip(similar_call[1].text) # <<>>
    /\ similar_call[1].embedding # <<>>

\* The backend whose list the call returned.
AnsweredBy(backend) ==
    /\ Searched
    /\ similar_call[1].ret.trace[Len(similar_call[1].ret.trace)] = backend

\* C11: find_similar_ideas never returns more than limit results, for every
\* limit >= 0, limit = 0 included, on the indexed path and on the fallback
\* path.
C11_AtMostLimit ==
    SimilarCalled =>
        Len(similar_call[1].ret.similar_ideas) <= similar_call[1].limit

\* limit = 0 with an index whose first document passes the threshold: the
\* indexed search raises on building the match, the fallback answers.
C11_Witness ==
    /\ Searched
    /\ similar_call[1].limit = 0
    /\ similar_call[1].threshold = Rat(7, 10)
    /\ similar_call[1].exclude_id = <<>>
    /\ search_client # <<>>
    /\ search_client[1].fail_at = Never
    /\ search_client[1].docs = Docs(<<Rat(19, 20)>>)
    /\ similar_call[1].ret.trace = <<"generate_embedding", "ai_search", "cosmos">>
    /\ similar_call[1].ret.built[1] = SimilarIdea("i1", Rat(19, 20))
    /\ similar_call[1].ret.similar_ideas = <<>>

\* C12: every match a backend builds, and so every match returned, has an
\* id other than exclude_id, when one is given, and a similarity score >=
\* threshold.
C12_ExcludedAndAboveThreshold ==
    SimilarCalled =>
        LET c == similar_call[1]
            passes(match) ==
                /\ c.exclude_id # <<>> => match.idea_id # c.exclude_id[1]
                /\ Ge(match.similarity_score, c.threshold)
        IN  /\ \A i \in 1..Len(c.ret.built) : passes(c.ret.built[i])
            /\ \A i \in 1..Len(c.ret.similar_ideas) : passes(c.ret.similar_ideas[i])

\* The index ranks i1 first; i1 is excluded and a match is built for the
\* next document.
C12_Witness ==
    /\ Searched
    /\ similar_call[1].exclude_id = <<"i1">>
    /\ similar_call[1].threshold = Rat(7, 10)
    /\ search_client # <<>>
    /\ search_client[1].docs = Docs(<<Rat(19, 20), Rat(7, 10), Rat(1, 2)>>)
    /\ similar_call[1].ret.built[1] = SimilarIdea("i2", Rat(7, 10))

ScanCompleted == ideas_container # <<>> /\ ~ideas_container[1].fails

\* C13 as stated: the returned list is in descending order of score on
\* both paths; a completed fallback scan returns min(limit, number
\* qualifying) distinct ideas, each qualifying (non-empty embedding, id other
\* than exclude_id, cosine score >= threshold) and returned with its cosine
\* score, and no qualifying idea left out scores higher than one returned.
C13_DescendingTopLimit ==
    SimilarCalled =>
        LET c == similar_call[1]
            found == c.ret.similar_ideas
            ids == {found[i].idea_id : i \in 1..Len(found)}
            items == ideas_container[1].items
            score == [q \in 1..Len(items) |->
                         _cosine_similarity(c.embedding, items[q].embedding)]
            qualifying ==
                {q \in 1..Len(items) :
                    /\ items[q].embedding # <<>>
                    /\ ~(Truthy(c.exclude_id) /\ items[q].id = c.exclude_id[1])
                    /\ Ge(score[q], c.threshold)}
        IN  /\ \A i \in 1..Len(found) : \A j \in (i + 1)..Len(found) :
                   Ge(found[i].similarity_score, found[j].similarity_score)
            /\ (AnsweredBy("cosmos") /\ ScanCompleted) =>
                   /\ Cardinality(ids) = Len(found)
                   /\ Len(found) = IF c.limit < Cardinality(qualifying)
                                   THEN c.limit ELSE Cardinality(qualifying)
                   /\ \A i \in 1..Len(found) : \E q \in qualifying :
                          /\ items[q].id = found[i].idea_id
                          /\ score[q] = found[i].similarity_score
                   /\ \A q \in qualifying :
                          items[q].id \notin ids =>
                              \A i \in 1..Len(found) :
                                  Ge(found[i].similarity_score, score[q])

\* C14: when no search client is configured, or the indexed search raises
\* on the search call or while its results are fetched, the call runs the
\* fallback scan and returns the scan's list.
C14_FallbackOnIndexFailure ==
    Searched =>
        LET c == similar_call[1]
        IN  (\/ search_client = <<>>
             \/ _search_similar_with_ai_search(search_client[1], c.embedding,
                    c.threshold, c.limit, c.exclude_id).raised)
            => /\ AnsweredBy("cosmos")
               /\ c.ret.similar_ideas =
                      _search_similar_with_cosmos(ideas_container, c.embedding,
                          c.threshold, c.limit, c.exclude_id).similar_ideas

\* The first result is below the threshold and fetching the second one
\* raises; the scan runs and its list is returned.
C14_Witness ==
    /\ Searched
    /\ search_client # <<>>
    /\ search_client[1].fail_at = 2
    /\ similar_call[1].limit = 2
    /\ similar_call[1].threshold = Rat(97, 100)
    /\ similar_call[1].exclude_id = <<>>
    /\ ideas_container # <<>>
    /\ similar_call[1].ret.trace = <<"generate_embedding", "ai_search", "cosmos">>
    /\ similar_call[1].ret.similar_ideas = <<>>

\* C15: an empty or whitespace-only text returns an empty list, and neither
\* the embedding service nor a search backend is called.
C15_BlankTextReturnsEmpty ==
    SimilarCalled =>
        (strip(similar_call[1].text) = <<>> =>
            /\ similar_call[1].ret.similar_ideas = <<>>
            /\ similar_call[1].ret.trace = <<>>)

\* A blank, with an index that holds three documents.
C15_Witness ==
    /\ SimilarCalled
    /\ similar_call[1].text = <<" ">>
    /\ search_client # <<>>
    /\ Len(search_client[1].docs) = 3
    /\ similar_call[1].ret.similar_ideas = <<>>

\* What the caller of find_similar_ideas receives besides the threshold it
\* passed: the list of the SimilarIdeasResponse.
Response(ret) == ret.similar_ideas

\* C22 as stated: when generate_embedding gives no vector for a non-blank
\* text, the caller receives something other than what a search without
\* matches gives, the empty list.
C22_EmbeddingFailureReported ==
    (/\ SimilarCalled
     /\ strip(similar_call[1].text) # <<>>
     /\ similar_call[1].embedding = <<>>) =>
        Response(similar_call[1].ret) # <<>>

\* C24: a call that searches calls generate_embedding, then the indexed
\* search if and only if a search client is configured, then the fallback
\* if and only if no client is configured or the indexed search raised;
\* each at most once. The list returned is the list of the last backend
\* called: an indexed search that returns, with or without matches, is
\* final, and nothing an indexed search built before raising is returned.
C24_SearchStateMachine ==
    Searched =>
        LET c == similar_call[1]
            indexed == _search_similar_with_ai_search(search_client[1], c.embedding,
                           c.threshold, c.limit, c.exclude_id)
            fallback == _search_similar_with_cosmos(ideas_container, c.embedding,
                            c.threshold, c.limit, c.exclude_id)
            fell_back == \E i \in 1..Len(c.ret.trace) : c.ret.trace[i] = "cosmos"
        IN  /\ c.ret.trace \in {<<"generate_embedding", "ai_search">>,
                                <<"generate_embedding", "ai_search", "cosmos">>,
                                <<"generate_embedding", "cosmos">>}
            /\ c.ret.trace[2] = "ai_search" <=> search_client # <<>>
            /\ fell_back <=> (search_client = <<>> \/ indexed.raised)
            /\ c.ret.similar_ideas = IF fell_back THEN fallback.similar_ideas
                                     ELSE indexed.similar_ideas
            /\ fell_back =>
                   \A i \in 1..Len(c.ret.similar_ideas) :
                       \E j \in 1..Len(fallback.built) :
                           c.ret.similar_ideas[i] = fallback.built[j]

\* The index answers with documents that are all below the threshold while
\* the container holds an idea that passes it: the indexed search is final.
C24_Witness ==
    /\ Searched
    /\ search_client # <<>>
    /\ search_client[1].fail_at = Never
    /\ search_client[1].docs = Docs(<<Rat(19, 20), Rat(7, 10)>>)
    /\ similar_call[1].threshold = Rat(97, 100)
    /\ similar_call[1].embedding = <<Num(3), Num(4)>>
    /\ ideas_container = <<[items |-> DefaultItems, fails |-> FALSE]>>
    /\ similar_call[1].ret.trace = <<"generate_embedding", "ai_search">>
    /\ similar_call[1].ret.similar_ideas = <<>>

\* C28: when the fallback runs and has no container, or its query raises, or
\* its scan raises, the call returns the empty list, whatever the scan had
\* built before.
C28_FallbackFailureReturnsEmpty ==
    AnsweredBy("cosmos") =>
        LET c == similar_call[1]
            scan == CosmosLoop(query_items(ideas_container[1]), c.embedding,
                               c.threshold, c.exclude_id)
        IN  (\/ ideas_container = <<>>
             \/ ideas_container[1].fails
             \/ scan.raised) =>
                c.ret.similar_ideas = <<>>

\* The indexed search raises on the search call and the scan raises on
\* building its first match.
C28_Witness ==
    /\ AnsweredBy("cosmos")
    /\ search_client # <<>>
    /\ search_client[1].fail_at = 0
    /\ ideas_container # <<>>
    /\ ~ideas_container[1].fails
    /\ similar_call[1].ret.built # <<>>
    /\ similar_call[1].ret.similar_ideas = <<>>

\* ------------------------------------------------------------------------
\* Bounds of the clustering model
\* ------------------------------------------------------------------------

\* Largest number of embeddings handed to the clusterer.
MaxSamples == 12

\* ------------------------------------------------------------------------
\* IdeaClusterer
\* ------------------------------------------------------------------------

IdeaClusterer(min_clusters, max_clusters, min_ideas_per_cluster) ==
    [min_clusters |-> min_clusters, max_clusters |-> max_clusters,
     min_ideas_per_cluster |-> min_ideas_per_cluster]

\* IdeaClusterer(): min_clusters=3, max_clusters=10, min_ideas_per_cluster=3
IdeaClusterer_default == IdeaClusterer(3, 10, 3)

\* A clustering or scoring call of scikit-learn that raised.
Failed == <<>>

Min(a, b) == IF b < a THEN b ELSE a

\* Variant: the first failing candidate ends the selection.
RECURSIVE OptimalLoop_abort_on_failure(_, _, _, _, _, _)
OptimalLoop_abort_on_failure(k, max_k, best_k, best_score, tried, outcome) ==
    IF k > max_k THEN [ret |-> best_k, tried |-> tried]
    ELSE IF outcome[k] = Failed THEN [ret |-> best_k, tried |-> Append(tried, k)]
    ELSE IF Gt(outcome[k], best_score)
         THEN OptimalLoop_abort_on_failure(k + 1, max_k, k, outcome[k],
                                           Append(tried, k), outcome)
         ELSE OptimalLoop_abort_on_failure(k + 1, max_k, best_k, best_score,
                                           Append(tried, k), outcome)

\* for k in range(min_k, max_k + 1): ... outcome[k] is the silhouette score
\* of KMeans(n_clusters=k) on the embeddings, or Failed when KMeans or
\* silhouette_score raises for it; tried lists the candidates evaluated.
RECURSIVE OptimalLoop(_, _, _, _, _, _)
OptimalLoop(k, max_k, best_k, best_score, tried, outcome) ==
    IF k > max_k THEN [ret |-> best_k, tried |-> tried]
    ELSE IF outcome[k] = Failed
         THEN OptimalLoop(k + 1, max_k, best_k, best_score, Append(tried, k), outcome)
    ELSE IF Gt(outcome[k], best_score)
         THEN OptimalLoop(k + 1, max_k, k, outcome[k], Append(tried, k), outcome)
         ELSE OptimalLoop(k + 1, max_k, best_k, best_score, Append(tried, k), outcome)

\* Variant: with too few ideas the configured minimum is returned.
_find_optimal_clusters_configured_minimum(self, n_samples, outcome) ==
    LET max_k == Min(self.max_clusters, n_samples \div self.min_ideas_per_cluster)
        min_k == self.min_clusters
    IN  IF max_k < min_k THEN [ret |-> min_k, tried |-> <<>>]
        ELSE OptimalLoop(min_k, max_k, min_k, Num(-1), <<>>, outcome)

\* IdeaClusterer._find_optimal_clusters on n_samples embeddings.
_find_optimal_clusters(self, n_samples, outcome) ==
    LET max_k == Min(self.max_clusters, n_samples \div self.min_ideas_per_cluster)
        min_k == Min(self.min_clusters, max_k)
    IN  IF max_k < min_k THEN [ret |-> min_k, tried |-> <<>>]
        ELSE OptimalLoop(min_k, max_k, min_k, Num(-1), <<>>, outcome)

\* KMeans(n_clusters=k).fit_predict on n_samples embeddings: raises for
\* k < 1 and for k > n_samples, and otherwise when fit says so; the labels
\* are one of two assignments of the embeddings to k clusters.
FitPredict(n_samples, k, fit) ==
    IF k < 1 \/ k > n_samples \/ fit = "raises" THEN Failed
    ELSE IF fit = "round_robin" THEN [i \in 1..n_samples |-> (i - 1) % k]
    ELSE [i \in 1..n_samples |-> IF i <= k THEN i - 1 ELSE 0]

\* Variant: on a failed KMeans fit the requested k is returned with the zero
\* labels.
cluster_ideas_keeps_k(self, n_samples, n_clusters, outcome, fit, array) ==
    IF n_samples = 0 THEN [raised |-> FALSE, labels |-> <<>>, n_clusters |-> 0]
    ELSE IF array = "raises" THEN [raised |-> TRUE, labels |-> <<>>, n_clusters |-> 0]
    ELSE LET k == IF n_clusters = <<>>
                  THEN _find_optimal_clusters(self, n_samples, outcome).ret
                  ELSE n_clusters[1]
             labels == IF array = "object_array" THEN Failed
                       ELSE FitPredict(n_samples, k, fit)
         IN  [raised |-> FALSE,
              labels |-> IF labels # Failed THEN labels
                         ELSE [i \in 1..n_samples |-> 0],
              n_clusters |-> k]

\* IdeaClusterer.cluster_ideas on n_samples embeddings; n_clusters is <<>>
\* (None) or <<k>>. array is what np.array made of the embeddings, which
\* the method calls outside its try block: "array" for embeddings of one
\* length; for embeddings of differing lengths "raises" (ValueError, NumPy
\* 1.24 and later) or "object_array" (earlier NumPy), on which every KMeans
\* fit raises. The result carries raised = TRUE when the call raises.
cluster_ideas(self, n_samples, n_clusters, outcome, fit, array) ==
    IF n_samples = 0 THEN [raised |-> FALSE, labels |-> <<>>, n_clusters |-> 0]
    ELSE IF array = "raises" THEN [raised |-> TRUE, labels |-> <<>>, n_clusters |-> 0]
    ELSE LET k == IF n_clusters = <<>>
                  THEN _find_optimal_clusters(self, n_samples, outcome).ret
                  ELSE n_clusters[1]
             labels == IF array = "object_array" THEN Failed
                       ELSE FitPredict(n_samples, k, fit)
         IN  IF labels # Failed
             THEN [raised |-> FALSE, labels |-> labels, n_clusters |-> k]
             ELSE [raised |-> FALSE, labels |-> [i \in 1..n_samples |-> 0],
                   n_clusters |-> 1]

\* Clusterers: the defaults and three custom ones (the last with
\* max_clusters below min_clusters).
Clusterers ==
    {IdeaClusterer_default, IdeaClusterer(2, 3, 2), IdeaClusterer(1, 4, 1),
     IdeaClusterer(3, 2, 3)}

\* Largest number of clusters a clusterer can allow for MaxSamples embeddings.
MaxK ==
    CHOOSE m \in 0..MaxSamples :
        /\ \A c \in Clusterers :
               Min(c.max_clusters, MaxSamples \div c.min_ideas_per_cluster) <= m
        /\ \E c \in Clusterers :
               Min(c.max_clusters, MaxSamples \div c.min_ideas_per_cluster) = m

\* Silhouette scores: the mean of values in [-1, 1]; -1 itself is not
\* attainable.
SilhouetteScores == {Rat(-1, 2), Rat(1, 4), Rat(3, 4)}

\* What scikit-learn answers for k clusters of n_samples embeddings: the
\* silhouette score, or Failed. KMeans raises for k < 1 and k > n_samples,
\* silhouette_score raises unless 2 <= k <= n_samples - 1; any other call
\* may raise as well.
Outcomes(n_samples) ==
    {outcome \in [0..MaxK -> {Failed} \cup SilhouetteScores] :
        \A k \in 0..MaxK : (k < 2 \/ k > n_samples - 1) => outcome[k] = Failed}

Fits == {"raises", "round_robin", "one_large"}

\* What np.array makes of n_samples embeddings: two or more embeddings can
\* differ in length.
ArrayOutcomes(n_samples) ==
    IF n_samples >= 2 THEN {"array", "object_array", "raises"} ELSE {"array"}

\* One invocation per behaviour: the clusterer keeps no state between calls.
FindOptimalClusters ==
    /\ optimal_call = <<>> /\ cluster_call = <<>>
    /\ \E n_samples \in 1..MaxSamples : \E outcome \in Outcomes(n_samples) :
           optimal_call' =
               <<[n_samples |-> n_samples, outcome |-> outcome,
                  ret |-> _find_optimal_clusters(clusterer[1], n_samples, outcome).ret,
                  tried |-> _find_optimal_clusters(clusterer[1], n_samples, outcome).tried]>>
    /\ UNCHANGED <<scoring_vars, service_vars, cluster_call, clusterer, concurrent_vars, analysis_vars>>

ClusterIdeas ==
    /\ optimal_call = <<>> /\ cluster_call = <<>>
    /\ \E n_samples \in 0..MaxSamples, fit \in Fits,
          n_clusters \in {<<>>} \cup {<<k>> : k \in 0..MaxK} :
          \E array \in ArrayOutcomes(n_samples) :
          \E outcome \in IF n_clusters = <<>> /\ n_samples > 0 /\ array = "array"
                          THEN Outcomes(n_samples)
                          ELSE {[k \in 0..MaxK |-> Failed]} :
              cluster_call' =
                  <<[n_samples |-> n_samples, n_clusters |-> n_clusters,
                     outcome |-> outcome, fit |-> fit, array |-> array,
                     ret |-> cluster_ideas(clusterer[1], n_samples, n_clusters,
                                           outcome, fit, array)]>>
    /\ UNCHANGED <<scoring_vars, service_vars, optimal_call, clusterer, concurrent_vars, analysis_vars>>

ClusteringInit ==
    /\ NoCalls /\ NoService /\ NoAnalysis /\ config = ScoringConfig_default
    /\ clusterer \in {<<c>> : c \in Clusterers}

ClusteringNext == FindOptimalClusters \/ ClusterIdeas

SpecClustering == ClusteringInit /\ [][ClusteringNext]_vars

\* ------------------------------------------------------------------------
\* Clustering (SpecClustering)
\* ------------------------------------------------------------------------

\* C18: cluster_ideas([]) returns ([], 0); with 1 <= n < min_clusters *
\* min_ideas_per_cluster embeddings the automatic selection returns
\* min(min_clusters, n // min_ideas_per_cluster), which cluster_ideas
\* returns too unless KMeans raises for it (embeddings that np.array
\* accepts); for n = 5 under the defaults both return k <= 1.
C18_DegenerateInput ==
    LET self == clusterer[1]
        few(n) == n >= 1 /\ n < self.min_clusters * self.min_ideas_per_cluster
        smallest(n) == Min(self.min_clusters, n \div self.min_ideas_per_cluster)
    IN  /\ (cluster_call # <<>> /\ cluster_call[1].n_samples = 0) =>
               cluster_call[1].ret =
                   [raised |-> FALSE, labels |-> <<>>, n_clusters |-> 0]
        /\ (optimal_call # <<>> /\ few(optimal_call[1].n_samples)) =>
               /\ optimal_call[1].ret = smallest(optimal_call[1].n_samples)
               /\ (self = IdeaClusterer_default /\ optimal_call[1].n_samples = 5) =>
                      optimal_call[1].ret <= 1
        /\ (/\ cluster_call # <<>>
            /\ cluster_call[1].n_clusters = <<>>
            /\ cluster_call[1].array # "raises"
            /\ few(cluster_call[1].n_samples)) =>
               /\ cluster_call[1].ret.n_clusters
                      \in {smallest(cluster_call[1].n_samples), 1}
               /\ Len(cluster_call[1].ret.labels) = cluster_call[1].n_samples
               /\ (self = IdeaClusterer_default /\ cluster_call[1].n_samples = 5) =>
                      cluster_call[1].ret.n_clusters <= 1

\* Five embeddings under the defaults: one cluster.
C18_Witness ==
    /\ cluster_call # <<>>
    /\ clusterer[1] = IdeaClusterer_default
    /\ cluster_call[1].n_samples = 5
    /\ cluster_call[1].n_clusters = <<>>
    /\ cluster_call[1].fit = "round_robin"
    /\ cluster_call[1].array = "array"
    /\ cluster_call[1].ret =
           [raised |-> FALSE, labels |-> <<0, 0, 0, 0, 0>>, n_clusters |-> 1]

C21_EmptyCorpusWithKRaises ==
    (/\ cluster_call # <<>>
     /\ cluster_call[1].n_samples = 0
     /\ cluster_call[1].n_clusters \notin {<<>>, <<0>>}) =>
        cluster_call[1].ret.raised

C20_NegativeWeightRaises ==
    (score_call # <<>> /\ ~NonNegativeWeights) =>
        \/ score_call[1].ret.impact_score = DivError
        \/ score_call[1].ret.feasibility_score = DivError

\* C30: each score is the weighted average over the contributions present,
\* a contribution's weight being the entry of the configured map under its
\* key and, when the map has no such key, the entry of the module's default
\* map; keys of the map that name no contribution have no effect; a
\* contribution of weight 0 enters neither sum.
C30_OmittedKeyUsesDefault ==
    score_call # <<>> =>
        LET est == score_call[1].kpi_estimates
            key == [k \in ImpactKpis |->
                       CASE k = "timeSavingsHours" -> "time_savings"
                         [] k = "costReductionEur" -> "cost_reduction"
                         [] k = "qualityImprovementPercent" -> "quality_improvement"
                         [] k = "employeeSatisfactionImpact" -> "employee_satisfaction"
                         [] k = "scalabilityPotential" -> "scalability"]
            impact_weight == [k \in ImpactKpis |->
                                 IF key[k] \in DOMAIN config.impact_weights
                                 THEN config.impact_weights[key[k]]
                                 ELSE DEFAULT_IMPACT_WEIGHTS[key[k]]]
            feasibility_weight == [k \in FeasibilityKeys |->
                                      IF k \in DOMAIN config.feasibility_weights
                                      THEN config.feasibility_weights[k]
                                      ELSE DEFAULT_FEASIBILITY_WEIGHTS[k]]
            present == ImpactKpis \cap DOMAIN est
            normalized == [k \in present |->
                              normalize_value(est[k], KPI_NORMALIZATION_RANGES[k][1],
                                              KPI_NORMALIZATION_RANGES[k][2], FALSE)]
            effort == IF "implementationEffortDays" \in DOMAIN est
                      THEN normalize_value(est["implementationEffortDays"],
                               KPI_NORMALIZATION_RANGES["implementationEffortDays"][1],
                               KPI_NORMALIZATION_RANGES["implementationEffortDays"][2], TRUE)
                      ELSE None
            risk == IF "riskLevel" \in DOMAIN est THEN RiskScore(est["riskLevel"]) ELSE None
            applied == {k \in FeasibilityKeys :
                           /\ k # "risk_level" => effort # None
                           /\ k # "implementation_effort" => risk # None}
            score == [k \in applied |->
                         CASE k = "implementation_effort" -> effort
                           [] k = "risk_level" -> risk
                           [] k = "complexity" -> Div(Add(effort, risk), Num(2))]
        IN  /\ score_call[1].ret.impact_score =
                   WeightedAverage(
                       SumOver(present, [k \in present |-> Mul(normalized[k], impact_weight[k])]),
                       SumOver(present, [k \in present |-> impact_weight[k]]))
            /\ score_call[1].ret.feasibility_score =
                   WeightedAverage(
                       SumOver(applied, [k \in applied |-> Mul(score[k], feasibility_weight[k])]),
                       SumOver(applied, [k \in applied |-> feasibility_weight[k]]))

\* Under the map {cost_reduction: 0.5, novelty: 0.5} time savings of 600
\* hours (normalized 100, default weight 0.20) and a cost reduction of
\* 200000 EUR (normalized 40) score (20 + 20) / 0.7 = 57.14.
C30_Witness ==
    /\ score_call # <<>>
    /\ config.impact_weights = PartialImpactWeights
    /\ DOMAIN score_call[1].kpi_estimates
           = {"timeSavingsHours", "costReductionEur", "implementationEffortDays"}
    /\ score_call[1].kpi_estimates["timeSavingsHours"] = Num(600)
    /\ score_call[1].kpi_estimates["costReductionEur"] = Num(200000)
    /\ score_call[1].ret.impact_score = Rat(5714, 100)

\* ------------------------------------------------------------------------
\* IdeasService._validate_kpi_estimates
\* ------------------------------------------------------------------------

\* The (min_val, max_val) pairs of the method's numeric_fields.
numeric_fields ==
    [k \in NumericKpis |->
        CASE k = "timeSavingsHours" -> <<Num(0), Num(1000)>>
          [] k = "costReductionEur" -> <<Num(0), Num(1000000)>>
          [] k = "qualityImprovementPercent" -> <<Num(0), Num(100)>>
          [] k = "employeeSatisfactionImpact" -> <<Num(-100), Num(100)>>
          [] k = "scalabilityPotential" -> <<Num(0), Num(100)>>
          [] k = "implementationEffortDays" -> <<Num(1), Num(365)>>]

\* A value of the raw dict for which float(value) raises ValueError.
NotANumber == <<"n/a">>

\* raw_kpis maps every field to None, a number or NotANumber, and riskLevel
\* to None or <<string>>. The validated dict holds None under every key it
\* does not hold a value for.
_validate_kpi_estimates(raw_kpis) ==
    LET clamped == [k \in NumericKpis |->
                       IF raw_kpis[k] = None \/ raw_kpis[k] = NotANumber THEN None
                       ELSE PyMax(numeric_fields[k][1],
                                  PyMin(numeric_fields[k][2], raw_kpis[k]))]
        risk_level == IF raw_kpis["riskLevel"] # None
                         /\ raw_kpis["riskLevel"][1] \in {"low", "medium", "high"}
                      THEN raw_kpis["riskLevel"] ELSE None
        validated == [k \in NumericKpis \cup {"riskLevel"} |->
                         IF k = "riskLevel" THEN risk_level ELSE <<clamped[k]>>]
    IN  [k \in {f \in DOMAIN validated : validated[f] \notin {None, <<None>>}} |->
            validated[k][1]]

\* What the language model's JSON holds under each key.
RawSamples ==
    [k \in NumericKpis \cup {"riskLevel"} |->
        CASE k = "timeSavingsHours" -> {None, Num(-5), Num(800), NotANumber}
          [] k = "costReductionEur" -> {None, Num(800000), Num(2000000), NaN}
          [] k = "qualityImprovementPercent" -> {None, Num(35), Num(150)}
          [] k = "employeeSatisfactionImpact" -> {None, Num(-150), PosInf}
          [] k = "scalabilityPotential" -> {None, Num(80), NegInf}
          [] k = "implementationEffortDays" -> {None, Num(0), Rat(1, 2), Num(400)}
          [] k = "riskLevel" -> {None, <<"low">>, <<"high">>, <<"critical">>}]

\* One invocation per behaviour: the method keeps no state between calls.
ValidateKpiEstimates ==
    /\ validate_call = <<>>
    /\ \E raw_kpis \in [timeSavingsHours : RawSamples["timeSavingsHours"],
                          costReductionEur : RawSamples["costReductionEur"],
                          qualityImprovementPercent : RawSamples["qualityImprovementPercent"],
                          employeeSatisfactionImpact : RawSamples["employeeSatisfactionImpact"],
                          scalabilityPotential : RawSamples["scalabilityPotential"],
                          implementationEffortDays : RawSamples["implementationEffortDays"],
                          riskLevel : RawSamples["riskLevel"]] :
           validate_call' = <<[raw_kpis |-> raw_kpis,
                               ret |-> _validate_kpi_estimates(raw_kpis)]>>
    /\ UNCHANGED <<scoring_vars, service_vars, clustering_vars, concurrent_vars,
                   stored_ideas>>

ValidateInit ==
    /\ NoCalls /\ NoService /\ NoClusterer /\ NoAnalysis
    /\ config = ScoringConfig_default

SpecValidate == ValidateInit /\ [][ValidateKpiEstimates]_vars

\* C27 as stated: every number of a validated estimate lies in the range
\* declared for its metric (KPI_NORMALIZATION_RANGES: 0-500 hours, 0-500000
\* EUR, 0-100, -100..100, 0-100, 1-365 days), and its riskLevel, when
\* present, is low, medium or high.
C27_WithinDeclaredDomain ==
    validate_call # <<>> =>
        LET ret == validate_call[1].ret
        IN  /\ \A k \in NumericKpis \cap DOMAIN ret :
                   /\ Ge(ret[k], KPI_NORMALIZATION_RANGES[k][1])
                   /\ Le(ret[k], KPI_NORMALIZATION_RANGES[k][2])
            /\ "riskLevel" \in DOMAIN ret => ret["riskLevel"] \in RiskLevels

\* ------------------------------------------------------------------------
\* Concurrent callers of IdeaScorer.calculate_scores
\* ------------------------------------------------------------------------

\* Callers share one scorer (config) and one kpi_estimates dict. A call is
\* three steps, the three method calls of calculate_scores, and callers
\* interleave between the steps; pc names the step a caller takes next.
SharedEstimates ==
    {e \in Estimates : DOMAIN e = {"timeSavingsHours", "costReductionEur",
                                   "implementationEffortDays", "riskLevel"}}

\* Variant: the impact step takes the cost reduction out of the dict it
\* scored.
CallImpact_consuming(c) ==
    /\ callers[c].pc = "impact"
    /\ callers' = [callers EXCEPT ![c].pc = "feasibility",
                       ![c].impact_score = calculate_impact_score(shared_estimate[1])]
    /\ shared_estimate' =
           <<[k \in DOMAIN shared_estimate[1] \ {"costReductionEur"} |->
                 shared_estimate[1][k]]>>
    /\ UNCHANGED <<scoring_vars, service_vars, clustering_vars, analysis_vars>>

\* impact_score = self.calculate_impact_score(kpi_estimates)
CallImpact(c) ==
    /\ callers[c].pc = "impact"
    /\ callers' = [callers EXCEPT ![c].pc = "feasibility",
                       ![c].impact_score = calculate_impact_score(shared_estimate[1])]
    /\ UNCHANGED <<scoring_vars, service_vars, clustering_vars, shared_estimate,
                   analysis_vars>>

\* feasibility_score = self.calculate_feasibility_score(kpi_estimates)
CallFeasibility(c) ==
    /\ callers[c].pc = "feasibility"
    /\ callers' = [callers EXCEPT ![c].pc = "classify",
                       ![c].feasibility_score =
                           calculate_feasibility_score(shared_estimate[1])]
    /\ UNCHANGED <<scoring_vars, service_vars, clustering_vars, shared_estimate,
                   analysis_vars>>

\* recommendation_class = self.determine_recommendation_class(...); return
CallClassify(c) ==
    /\ callers[c].pc = "classify"
    /\ callers' = [callers EXCEPT ![c].pc = "done",
                       ![c].ret = <<ScoreResult(callers[c].impact_score,
                                                callers[c].feasibility_score)>>]
    /\ UNCHANGED <<scoring_vars, service_vars, clustering_vars, shared_estimate,
                   analysis_vars>>

ConcurrentInit ==
    /\ NoCalls /\ NoService /\ NoClusterer
    /\ validate_call = <<>> /\ stored_ideas = <<>>
    /\ config \in Configs
    /\ shared_estimate \in {<<e>> : e \in SharedEstimates}
    /\ callers = [c \in 1..MaxCallers |->
                     [pc |-> "impact", impact_score |-> None,
                      feasibility_score |-> None, ret |-> <<>>]]

ConcurrentNext ==
    \E c \in 1..MaxCallers : CallImpact(c) \/ CallFeasibility(c) \/ CallClassify(c)

SpecConcurrent == ConcurrentInit /\ [][ConcurrentNext]_vars

\* C23: no step of a call changes the shared estimate or the scorer's
\* configuration, and every finished call, however the callers interleaved,
\* returned what calculate_scores returns for the shared estimate when run
\* alone.
C23_SideEffectFree ==
    /\ [][shared_estimate' = shared_estimate /\ config' = config]_vars
    /\ [](\A c \in 1..Len(callers) :
              callers[c].pc = "done" =>
                  callers[c].ret = <<calculate_scores(shared_estimate[1])>>)

\* The second caller ran a whole call while the first was between its
\* first and its second step.
C23_Witness ==
    /\ callers # <<>>
    /\ callers[1].pc = "feasibility"
    /\ callers[2].pc = "done"
    /\ callers[2].ret = <<calculate_scores(shared_estimate[1])>>
    /\ callers[2].ret[1].impact_score # Num(0)

\* ------------------------------------------------------------------------
\* The stored idea: create_idea, update_idea, analyze_idea, rescoring job
\* ------------------------------------------------------------------------

\* Idea.get_text_for_embedding: the text parts, joined. Of the four parts
\* the title and the description are modelled.
get_text_for_embedding(idea) == <<idea.title, idea.description>>

\* IdeasService.generate_embedding: [] when the client is missing or the
\* call raises, else the vector of the embedding model for the text, here
\* <<text>>.
generate_embedding(text, succeeds) == IF succeeds THEN <<text>> ELSE <<>>

\* IdeasService.create_idea with an idea built from a title and a
\* description: the other fields are the defaults of the Idea dataclass.
CreateIdea(title, description, succeeds) ==
    /\ Len(stored_ideas) < MaxIdeas
    /\ stored_ideas' =
           Append(stored_ideas,
                  [title |-> title, description |-> description,
                   embedding |-> generate_embedding(<<title, description>>, succeeds),
                   kpi_estimates |-> <<>>,
                   impact_score |-> Num(0), feasibility_score |-> Num(0),
                   recommendation_class |-> UNCLASSIFIED,
                   analysis_version |-> ""])
    /\ UNCHANGED <<scoring_vars, service_vars, clustering_vars, concurrent_vars,
                   validate_call>>

\* IdeasService.update_idea with updates for title and description: the
\* mapped fields are set and the item is saved.
UpdateIdea(i, title, description) ==
    /\ i \in 1..Len(stored_ideas)
    /\ stored_ideas' =
           [stored_ideas EXCEPT ![i].title = title, ![i].description = description]
    /\ UNCHANGED <<scoring_vars, service_vars, clustering_vars, concurrent_vars,
                   validate_call>>

\* IdeasService.analyze_idea followed by the upsert of its caller.
\* kpi_estimates is what extract_kpis returns: <<>> ({}, extraction failed)
\* or <<validated dict>>, which is never empty as a Python dict.
AnalyzeIdea(i, kpi_estimates, succeeds) ==
    /\ i \in 1..Len(stored_ideas)
    /\ LET idea == stored_ideas[i]
           embedded == [idea EXCEPT
                           !.embedding =
                               generate_embedding(get_text_for_embedding(idea), succeeds),
                           !.kpi_estimates = kpi_estimates,
                           !.analysis_version = "1.3"]
       IN  stored_ideas' =
               [stored_ideas EXCEPT ![i] =
                   IF kpi_estimates # <<>>
                   THEN [embedded EXCEPT
                            !.impact_score = calculate_scores(kpi_estimates[1]).impact_score,
                            !.feasibility_score =
                                calculate_scores(kpi_estimates[1]).feasibility_score,
                            !.recommendation_class =
                                calculate_scores(kpi_estimates[1]).recommendation_class]
                   ELSE embedded]
    /\ UNCHANGED <<scoring_vars, service_vars, clustering_vars, concurrent_vars,
                   validate_call>>

\* The WHERE clause of IdeasScheduler._get_ideas_needing_rescoring; every
\* stored item defines kpiEstimates.
_get_ideas_needing_rescoring(idea) ==
    idea.impact_score = Num(0) \/ idea.feasibility_score = Num(0)

\* IdeasScheduler.run_rescoring_job: _rescore_idea on every idea selected.
RunRescoringJob ==
    /\ stored_ideas # <<>>
    /\ stored_ideas' =
           [i \in 1..Len(stored_ideas) |->
               LET idea == stored_ideas[i]
               IN  IF _get_ideas_needing_rescoring(idea) /\ idea.kpi_estimates # <<>>
                   THEN [idea EXCEPT
                            !.impact_score =
                                calculate_scores(idea.kpi_estimates[1]).impact_score,
                            !.feasibility_score =
                                calculate_scores(idea.kpi_estimates[1]).feasibility_score,
                            !.recommendation_class =
                                calculate_scores(idea.kpi_estimates[1]).recommendation_class]
                   ELSE idea]
    /\ UNCHANGED <<scoring_vars, service_vars, clustering_vars, concurrent_vars,
                   validate_call>>

\* The service and the scheduler are constructed again with another scoring
\* configuration.
Reconfigure(scoring_config) ==
    /\ scoring_config # config
    /\ config' = scoring_config
    /\ UNCHANGED <<norm_call, class_call, score_call, service_vars, clustering_vars,
                   concurrent_vars, analysis_vars>>

LifecycleInit ==
    /\ NoCalls /\ NoService /\ NoClusterer /\ NoAnalysis
    /\ config = ScoringConfig_default

LifecycleNext ==
    \/ \E title \in {"a", "b"}, description \in {"c", "d"} :
           \/ \E succeeds \in BOOLEAN : CreateIdea(title, description, succeeds)
           \/ \E i \in 1..MaxIdeas : UpdateIdea(i, title, description)
    \/ \E i \in 1..MaxIdeas, succeeds \in BOOLEAN :
           \E kpi_estimates \in
                  {<<>>} \cup {<<e>> : e \in {s \in SharedEstimates :
                                                /\ s["costReductionEur"] = Num(200000)
                                                /\ s["implementationEffortDays"] = Num(120)
                                                /\ s["riskLevel"] = "low"}} :
               AnalyzeIdea(i, kpi_estimates, succeeds)
    \/ RunRescoringJob
    \/ \E scoring_config \in
              {ScoringConfig_default,
               [impact_weights |-> ZeroImpactWeights,
                feasibility_weights |-> ZeroFeasibilityWeights],
               [impact_weights |-> CustomImpactWeights,
                feasibility_weights |-> CustomFeasibilityWeights]} :
           Reconfigure(scoring_config)

SpecLifecycle == LifecycleInit /\ [][LifecycleNext]_vars

\* C25 as stated: every analyzed idea's impactScore, feasibilityScore and
\* recommendationClass are what calculate_scores gives for the idea's
\* current kpiEstimates under the current scoring configuration.
C25_ScoresFollowEstimateAndWeights ==
    \A i \in 1..Len(stored_ideas) :
        stored_ideas[i].analysis_version = "1.3" =>
            LET idea == stored_ideas[i]
                kpi_estimates == IF idea.kpi_estimates = <<>> THEN <<>>
                                 ELSE idea.kpi_estimates[1]
            IN  /\ idea.impact_score = calculate_scores(kpi_estimates).impact_score
                /\ idea.feasibility_score = calculate_scores(kpi_estimates).feasibility_score
                /\ idea.recommendation_class =
                       calculate_scores(kpi_estimates).recommendation_class

\* C26 as stated: every stored embedding is the embedding of the idea's
\* current text (an idea whose embedding could not be generated has none).
C26_EmbeddingFollowsText ==
    \A i \in 1..Len(stored_ideas) :
        stored_ideas[i].embedding # <<>> =>
            stored_ideas[i].embedding =
                generate_embedding(get_text_for_embedding(stored_ideas[i]), TRUE)

====
